---- MODULE Spec2Model ----
(***************************************************************************)
(* Verification model of the Signal Aggregation & Risk-Scoring Pipeline:   *)
(* DataHandler.run over the MongoDB collection                             *)
(* "fundamentals_of_top_list_symbols" (src/data_handler/_data_handler.py,  *)
(* src/database/_mongodb/mongo_handler.py) and the pure bar-series         *)
(* functions of ChartAnalyzer (src/tz_api/api_chart.py).                   *)
(***************************************************************************)
EXTENDS Integers, Sequences, FiniteSets, TLC

(***************************************************************************)
(* Bounds of the model.                                                    *)
(***************************************************************************)
MaxDay == 2
MaxDocs == 2

Symbols == {"A", "B"}
Procs == {1, 2}

\* list_of_symbols values handed to DataHandler.run (ordered, distinct
\* tickers): one ticker run day after day, and a two-ticker batch
DailyLists == {<<>>, <<"A">>}
BatchLists == {<<>>, <<"A", "B">>}
ConcLists == {<<"A">>}

(***************************************************************************)
(* Documents.  A stored document is a record over Fields; a key the        *)
(* document does not have holds Absent, a key holding Python None holds    *)
(* Null, a suggestion that is the empty string holds Empty.                *)
(***************************************************************************)
Absent == "absent"
Null == "null"
Empty == "empty"
Unset == "unset"

KeyFields == {"id", "symbol", "today_date"}
OptFields == {"fund", "price", "suggestion", "sec_filing_analysis"}
Fields == KeyFields \cup OptFields

FundVals == {"f1"}
PriceVals == {"p1"}
SuggVals == {Empty, "s1"}
SecVals == {"ok", "err"}

\* Python truthiness of doc.get(key)
Truthy(v) == v \notin {Absent, Null, Empty}

\* a document as returned by pymongo: a dict holding only the keys it has
AsDict(d) == [f \in {g \in Fields : g \in KeyFields \/ d[g] # Absent} |-> d[f]]

\* {**a, **b}
DictMerge(a, b) == [f \in DOMAIN a \cup DOMAIN b |-> IF f \in DOMAIN b THEN b[f] ELSE a[f]]

\* natural (insertion) order of a collection: ascending id
FirstDoc(S) == CHOOSE d \in S : \A e \in S : d.id <= e.id

\* a write that replaces the document instead of amending it
SetFieldsReplace(d, nd) ==
    [f \in Fields |-> IF f \in DOMAIN nd THEN nd[f]
                      ELSE IF f \in KeyFields THEN d[f] ELSE Absent]

\* the effect of {"$set": nd} on document d
SetFields(d, nd) == [f \in Fields |-> IF f \in DOMAIN nd THEN nd[f] ELSE d[f]]

\* MongoHandler.find_doc: [] when not connected, else the matching documents
find_doc(st, connected, syms, dates) ==
    IF connected
    THEN {d \in st : d.symbol \in syms /\ d.today_date \in dates}
    ELSE {}

\* the document an upsert inserts when nothing matches: the filter's equality
\* fields, a fresh _id, then the $set
NewDoc(q, nid) ==
    [f \in Fields |-> CASE f = "id" -> nid
                        [] f = "symbol" -> q.symbol
                        [] f = "today_date" -> q.today_date
                        [] OTHER -> Absent]

\* MongoHandler.upsert_doc: stamps today_date with the current New York date,
\* then update_one(filter, {"$set": new_data}, upsert=True).  Any error (not
\* connected, a $set that would change _id, a duplicate _id on insert) makes
\* it return None and leaves the collection unchanged.
upsert_doc(st, nid, q, new_data, now, connected) ==
    LET nd == [f \in DOMAIN new_data \cup {"today_date"} |->
                  IF f = "today_date" THEN now ELSE new_data[f]]
        M == {d \in st : d.symbol = q.symbol /\ d.today_date = q.today_date}
        fail == [store |-> st, nextId |-> nid, ok |-> FALSE]
    IN  IF ~connected THEN fail
        ELSE IF M # {}
        THEN LET d == FirstDoc(M)
             IN  IF "id" \in DOMAIN nd /\ nd.id # d.id
                 THEN fail
                 ELSE [store |-> (st \ {d}) \cup {SetFields(d, nd)},
                       nextId |-> nid, ok |-> TRUE]
        ELSE LET n == SetFields(NewDoc(q, nid), nd)
             IN  IF \E e \in st : e.id = n.id
                 THEN fail
                 ELSE [store |-> st \cup {n},
                       nextId |-> IF n.id = nid THEN nid + 1 ELSE nid,
                       ok |-> TRUE]


\* max(recent_docs, key=lambda d: d["today_date"]): the first document, in
\* list (natural) order, among those of the latest date
LatestDoc(S) ==
    CHOOSE d \in S : \A e \in S :
        \/ d.today_date > e.today_date
        \/ (d.today_date = e.today_date /\ d.id <= e.id)

(***************************************************************************)
(* ChartAnalyzer (src/tz_api/api_chart.py).  A bar is a record with its    *)
(* date (day), its time of day in minutes, and low, high, volume.  Prices  *)
(* are integers in thousandths, so a 2-decimal value is a multiple of 10;  *)
(* an optional number is <<>> for None and <<v>> for the value v.          *)
(***************************************************************************)
MaxN == 3

Range(q) == {q[i] : i \in 1..Len(q)}

None == <<>>

\* dtime(9, 30) and dtime(4, 0), in minutes of the day
market_open_time == 570
four_am == 240

\* the bars the three series are drawn from, in datetime order (get_chart_data
\* sorts what it parsed).  No price ends in 5 thousandths, where round() would
\* depend on the binary representation of the float.
Pool1m ==
    << [day |-> 1, time |-> 600, low |-> 900, high |-> 2000, volume |-> 1],
       [day |-> 2, time |-> 480, low |-> 1000, high |-> 1804, volume |-> 1],
       [day |-> 2, time |-> 570, low |-> 1504, high |-> 1600, volume |-> 1],
       [day |-> 2, time |-> 600, low |-> 1496, high |-> 1700, volume |-> 1] >>

Pool5m ==
    << [day |-> 1, time |-> 600, low |-> 900, high |-> 2000, volume |-> 5],
       [day |-> 2, time |-> 200, low |-> 1000, high |-> 1100, volume |-> 3],
       [day |-> 2, time |-> 300, low |-> 1000, high |-> 1100, volume |-> 2] >>

Pool1d ==
    << [day |-> 1, time |-> 0, low |-> 1700, high |-> 1900, volume |-> 10],
       [day |-> 2, time |-> 0, low |-> 1850, high |-> 2100, volume |-> 10],
       [day |-> 3, time |-> 0, low |-> 1846, high |-> 2200, volume |-> 4],
       [day |-> 4, time |-> 0, low |-> 1600, high |-> 1750, volume |-> 10] >>

\* the sub-series of pool made of the bars at the positions in S
Pick(pool, S) ==
    LET F[i \in 0..Len(pool)] ==
            IF i = 0 THEN <<>>
            ELSE IF i \in S THEN Append(F[i - 1], pool[i]) ELSE F[i - 1]
    IN  F[Len(pool)]

Series(pool) == {Pick(pool, S) : S \in SUBSET (1..Len(pool))}

MaxOf(S) == CHOOSE m \in S : \A x \in S : x <= m
MinOf(S) == CHOOSE m \in S : \A x \in S : m <= x

\* round(value, 2) of a number (every caller passes a number)
to_two_decimal(value) == ((value + 5) \div 10) * 10

\* update_last_day_data: the bars of the latest date of data_1m
update_last_day_data(data_1m) ==
    IF data_1m = <<>> THEN <<>>
    ELSE LET all_dates == {data_1m[i].day : i \in 1..Len(data_1m)}
             last_date == MaxOf(all_dates)
             onLast(x) == x.day = last_date
         IN  SelectSeq(data_1m, onLast)

get_market_data(last_day_data_1m) ==
    LET inSession(x) == x.time >= market_open_time
    IN  SelectSeq(last_day_data_1m, inSession)

get_day_high(last_day_data_1m) ==
    IF last_day_data_1m = <<>> THEN None
    ELSE <<to_two_decimal(MaxOf({last_day_data_1m[i].high :
                                    i \in 1..Len(last_day_data_1m)}))>>

\* a day low taken over every bar of the last day
get_day_low_all_bars(last_day_data_1m) ==
    IF last_day_data_1m = <<>> THEN None
    ELSE <<to_two_decimal(MinOf({last_day_data_1m[i].low :
                                    i \in 1..Len(last_day_data_1m)}))>>

get_day_low(last_day_data_1m) ==
    LET market_data == get_market_data(last_day_data_1m)
    IN  IF market_data = <<>> THEN None
        ELSE <<to_two_decimal(MinOf({market_data[i].low :
                                        i \in 1..Len(market_data)}))>>

\* _get_volume_since_4am: the volume of the bars of data_5m at or after 04:00
get_volume_since_4am(data_5m) ==
    LET Sum[i \in 0..Len(data_5m)] ==
            IF i = 0 THEN 0
            ELSE Sum[i - 1] + (IF data_5m[i].time >= four_am
                               THEN data_5m[i].volume ELSE 0)
    IN  Sum[Len(data_5m)]

\* sorted(list(set(...))): the elements of S in ascending order
RECURSIVE sorted(_)
sorted(S) ==
    IF S = {} THEN <<>>
    ELSE LET m == MinOf(S) IN <<m>> \o sorted(S \ {m})

\* steps 1-7 of get_key_levels: the list key_levels before it is deduplicated
\* (empty when there is no day high, no daily bar or no retained bar)
key_level_candidates(c) ==
    LET current_volume == get_volume_since_4am(c.data_5m)
        day_high == get_day_high(update_last_day_data(c.data_1m))
    IN  IF day_high = None THEN <<>>
        ELSE LET retained(candle) ==
                     candle.volume > current_volume /\ candle.high > day_high[1]
                 filtered_candles == SelectSeq(c.data_1d, retained)
             IN  [i \in 1..Len(filtered_candles) |->
                     IF filtered_candles[i].low > day_high[1]
                     THEN to_two_decimal(filtered_candles[i].low)
                     ELSE to_two_decimal(filtered_candles[i].high)]

\* a slice that keeps one level too many
get_key_levels_off_by_one(c, level_number) ==
    LET key_levels == sorted(Range(key_level_candidates(c)))
    IN  SubSeq(key_levels, 1,
               IF level_number + 1 < Len(key_levels)
               THEN level_number + 1 ELSE Len(key_levels))

\* steps 8-9: sorted(list(set(key_levels)))[:level_number]
get_key_levels(c, level_number) ==
    LET key_levels == sorted(Range(key_level_candidates(c)))
    IN  SubSeq(key_levels, 1,
               IF level_number < Len(key_levels)
               THEN level_number ELSE Len(key_levels))

NoResult == [day_high |-> None, day_low |-> None, key_levels |-> <<>>]

\* the analyzer of the pipeline model, whose bar series play no part there
ChartIdle ==
    [data_1m |-> <<>>, data_5m |-> <<>>, data_1d |-> <<>>, level_number |-> 0,
     done |-> FALSE, result |-> NoResult]

(***************************************************************************)
(* ShortSqueezeScanner (src/data_handler/short_squeeze_scanner2.py).  The  *)
(* one-row DataFrame is a function from the columns it has to the cell;    *)
(* a numeric cell is None (NaN) or <<v>>.  Share counts are in thousands   *)
(* of shares, cash in thousands of USD, prices in thousandths of a USD,    *)
(* weights and components in tenths, the burn rate in months and a date in *)
(* days from today.  The score is the exact fraction num/den: sum() over   *)
(* floats is compensated from Python 3.12 on, which the sources need       *)
(* (mongo_handler.py line 183), so the weights add up without rounding.    *)
(***************************************************************************)
RECURSIVE SumSeq(_)
SumSeq(s) == IF s = <<>> THEN 0 ELSE Head(s) + SumSeq(Tail(s))

\* a comparison with NaN is False
IsNum(x) == x # None

weight_float_risk == 5
weight_float_ratio_risk == 2
weight_short_risk == 2
weight_cash_crisis == 1

\* 1. np.select over float < 1e6 and float.between(1e6, 5e6, inclusive='left')
float_risk(data) ==
    IF "float" \notin DOMAIN data THEN Absent
    ELSE IF IsNum(data["float"]) /\ data["float"][1] < 1000
         THEN "Extreme Risk (Float <1M)"
    ELSE IF IsNum(data["float"]) /\ 1000 <= data["float"][1]
                                 /\ data["float"][1] < 5000
         THEN "High Risk (1M<=Float<5M)"
    ELSE "Acceptable"

\* 2. float / outstandingshares < 0.4 (a division by zero gives inf or NaN)
float_ratio_risk(data) ==
    IF "float" \notin DOMAIN data \/ "outstandingshares" \notin DOMAIN data
    THEN Absent
    ELSE IF /\ IsNum(data["float"]) /\ IsNum(data["outstandingshares"])
            /\ data["outstandingshares"][1] > 0
            /\ data["float"][1] * 10 < 4 * data["outstandingshares"][1]
         THEN "Warning (Float/Outstanding <40%)"
         ELSE "Normal"

\* 3. cash (usd) / (outstandingshares * current_price) < 0.1, as int
cash_crisis(data, current_price) ==
    IF \/ current_price = None
       \/ "outstandingshares" \notin DOMAIN data
       \/ "cash (usd)" \notin DOMAIN data
    THEN None
    ELSE IF /\ IsNum(data["outstandingshares"]) /\ IsNum(data["cash (usd)"])
            /\ data["outstandingshares"][1] * current_price[1] > 0
            /\ data["cash (usd)"][1] * 10000
                  < data["outstandingshares"][1] * current_price[1]
         THEN <<1>>
         ELSE <<0>>

\* 4. short_interest / float > 0.3, as float; 0 when there is no data
short_risk(data, short_interest) ==
    IF short_interest = None \/ "float" \notin DOMAIN data THEN 0
    ELSE IF ~IsNum(data["float"]) THEN 0
    ELSE IF data["float"][1] = 0
         THEN (IF short_interest[1] > 0 THEN 1 ELSE 0)
    ELSE IF short_interest[1] * 10 > 3 * data["float"][1] THEN 1 ELSE 0

Indicator(b) == IF b THEN 1 ELSE 0

\* the lists squeeze_score_components and weights, in append order
squeeze_score_components(data, current_price, short_interest) ==
    (IF float_risk(data) # Absent
     THEN <<weight_float_risk
              * Indicator(float_risk(data) = "Extreme Risk (Float <1M)")>>
     ELSE <<>>)
    \o (IF float_ratio_risk(data) # Absent
        THEN <<weight_float_ratio_risk
                 * Indicator(float_ratio_risk(data)
                               = "Warning (Float/Outstanding <40%)")>>
        ELSE <<>>)
    \o <<weight_short_risk * short_risk(data, short_interest)>>
    \o (IF cash_crisis(data, current_price) # None
        THEN <<weight_cash_crisis * cash_crisis(data, current_price)[1]>>
        ELSE <<>>)

weights(data, current_price) ==
    (IF float_risk(data) # Absent THEN <<weight_float_risk>> ELSE <<>>)
    \o (IF float_ratio_risk(data) # Absent
        THEN <<weight_float_ratio_risk>> ELSE <<>>)
    \o <<weight_short_risk>>
    \o (IF cash_crisis(data, current_price) # None
        THEN <<weight_cash_crisis>> ELSE <<>>)

\* a total that counts the first weight only
total_weight_first(ws) == Head(ws)

total_weight(ws) == SumSeq(ws)

\* a combination that divides by the last weight instead of the total
squeeze_score_last_weight(comps, ws) ==
    [num |-> SumSeq([i \in 1..Len(comps) |-> comps[i] * ws[i]]),
     den |-> 10 * ws[Len(ws)]]

\* sum(comp * (weight/total_weight) for comp, weight in zip(...)): with the
\* components and weights in tenths, the fraction num/den
squeeze_score(comps, ws) ==
    [num |-> SumSeq([i \in 1..Len(comps) |-> comps[i] * ws[i]]),
     den |-> 10 * total_weight(ws)]

\* calculate_squeeze_risk: the score of the row
calculate_squeeze_risk(data, current_price, short_interest) ==
    squeeze_score(squeeze_score_components(data, current_price, short_interest),
                  weights(data, current_price))

\* (last shelf date - now).dt.days for a date d days from today's date
shelf_days_left(d) == d - 1

\* an urgency that defaults to 1 when the row has no shelf date
atm_urgency_default_one(data) ==
    IF "last shelf date" \notin DOMAIN data THEN 1
    ELSE IF ~IsNum(data["last shelf date"]) THEN 0
    ELSE IF "burn rate (months)" \notin DOMAIN data THEN 0
    ELSE IF /\ IsNum(data["burn rate (months)"])
            /\ data["burn rate (months)"][1] * 30
                  < shelf_days_left(data["last shelf date"][1])
         THEN 1 ELSE 0

\* calculate_atm_risk: burn rate (months) < shelf_days_left / 30, as int; 0
\* without a shelf date, and 0 when the burn-rate column is missing (the
\* KeyError is caught)
atm_urgency(data) ==
    IF "last shelf date" \notin DOMAIN data THEN 0
    ELSE IF ~IsNum(data["last shelf date"]) THEN 0
    ELSE IF "burn rate (months)" \notin DOMAIN data THEN 0
    ELSE IF /\ IsNum(data["burn rate (months)"])
            /\ data["burn rate (months)"][1] * 30
                  < shelf_days_left(data["last shelf date"][1])
         THEN 1 ELSE 0

\* generate_short_signals raises ZeroDivisionError on an intraday high of 0
ShortSignalsRaise(current_price, intraday_high) ==
    current_price # None /\ intraday_high # None /\ intraday_high[1] = 0

\* (intraday_high - current_price) / intraday_high < 0.03
resistance_ok(current_price, intraday_high) ==
    /\ intraday_high # None /\ current_price # None
    /\ (intraday_high[1] - current_price[1]) * 100 < 3 * intraday_high[1]

keywords == {"breakthrough", "surge", "milestone", "bullish", "buy rating"}

\* suggestion.str.count('|'.join(keywords)) over a text given as its words:
\* NaN for a null cell, 0 without the column
hype_score(data) ==
    IF "suggestion" \notin DOMAIN data THEN <<0>>
    ELSE IF data["suggestion"] = None THEN None
    ELSE <<Cardinality({i \in 1..Len(data["suggestion"][1]) :
                           data["suggestion"][1][i] \in keywords})>>

\* a signal that does not ask for the resistance clause
short_signal_no_resistance(score, urgency, resistance, hype) ==
    /\ score.num * 10 < 4 * score.den
    /\ urgency = 1
    /\ hype # None /\ hype[1] >= 3

\* (squeeze_score < 0.4) & (atm_urgency == 1) & resistance_ok & (hype_score >= 3)
short_signal(score, urgency, resistance, hype) ==
    /\ score.num * 10 < 4 * score.den
    /\ urgency = 1
    /\ resistance
    /\ hype # None /\ hype[1] >= 3

NoScan ==
    [float_risk |-> Absent, float_ratio_risk |-> Absent, cash_crisis |-> None,
     squeeze_score |-> [num |-> 0, den |-> 1], atm_urgency |-> 0,
     resistance_ok |-> FALSE, hype_score |-> None, short_signal |-> FALSE]

\* the scanner of the pipeline model, which is not modelled there
ScannerIdle ==
    [data |-> <<>>, current_price |-> None, intraday_high |-> None,
     short_interest |-> None, done |-> FALSE, raised |-> FALSE,
     result |-> NoScan]

(***************************************************************************)
(* SECFinancialAnalyzer (src/get_sec_filings/get_sec_filings_5_demo.py).   *)
(* Amounts are in thousands of USD, None when the metric is not reported;  *)
(* a filing is <<form, age>> with its age in days before today; the burn   *)
(* rate is the exact fraction num/den of months.                           *)
(***************************************************************************)
ShelfForms == {"S-3", "S-3/A", "S-3ASR", "F-3", "F-3ASR"}

\* pd.Timestamp.now() - pd.DateOffset(years=3), in days before today
three_years == 1095

shelf_filings(filings) ==
    SelectSeq(filings, LAMBDA f : f[1] \in ShelfForms)

\* a valid shelf whatever its date
valid_shelf_any_date(filings) == shelf_filings(filings)

\* the shelf filings dated after now minus three years (a filing dated
\* exactly three years ago, at midnight, is before that instant)
valid_shelf(filings) ==
    SelectSeq(shelf_filings(filings), LAMBDA f : f[2] < three_years)

\* Python truthiness of a number or None
Nonzero(x) == x # None /\ x[1] # 0

\* (cash / abs(op_cash_flow)) * 3 if cash and op_cash_flow and
\* op_cash_flow < 0 else None
burn_rate(cash, op_cash_flow) ==
    IF Nonzero(cash) /\ Nonzero(op_cash_flow) /\ op_cash_flow[1] < 0
    THEN [num |-> 3 * cash[1], den |-> -op_cash_flow[1]]
    ELSE None

\* calculate_atm_risk: cash_ratio is cash / debt if cash and debt else 0, so
\* without a debt figure the ratio is 0
calculate_atm_risk(has_shelf, cash, debt, burn) ==
    IF ~has_shelf THEN "None"
    ELSE IF ~Nonzero(cash) THEN "Very High"
    ELSE IF cash[1] < 5000 THEN "Very High"
    ELSE IF cash[1] < 10000 THEN "High"
    ELSE IF ~Nonzero(debt) \/ cash[1] * 10 < debt[1] THEN "High"
    ELSE IF cash[1] * 100 < 25 * debt[1] THEN "Medium-High"
    ELSE IF burn # None /\ burn.num # 0 /\ burn.num < 6 * burn.den
         THEN "Medium-High"
    ELSE "Medium"

\* f"{cash_ratio:.1%}" if cash_ratio else "N/A", read back by
\* float(cash_ratio_str.strip("%")) / 100: the ratio rounded to a tenth of a
\* percent, None for "N/A"
cash_ratio_str(cash, debt) ==
    IF Nonzero(cash) /\ Nonzero(debt)
    THEN <<(2000 * cash[1] + debt[1]) \div (2 * debt[1])>>
    ELSE None

\* f"{burn_rate:.1f}" if burn_rate else "N/A", read back by float(): the burn
\* rate rounded to a tenth of a month, None for "N/A"
burn_rate_str(burn) ==
    IF burn # None /\ burn.num # 0
    THEN <<(20 * burn.num + burn.den) \div (2 * burn.den)>>
    ELSE None

\* word in recommendations["overall"], for the words the cascade looks for
WordsOf(overall) ==
    CASE overall = "Avoid/Sell" -> {"Avoid", "Sell"}
      [] overall = "Sell/Short-term only" -> {"Sell"}
      [] overall = "Caution/Short-term" -> {"Caution"}
      [] overall = "Reduce/Caution" -> {"Caution"}
      [] overall = "Reduce/Avoid" -> {"Avoid"}
      [] overall = "Caution/Reduce" -> {"Caution"}
      [] OTHER -> {}

\* the default recommendation
DefaultStance ==
    [overall |-> "Hold - Insufficient data to make recommendation",
     reasons |-> <<>>]

\* the baseline set from the risk level
BaselineStance(r, risk_level, cash) ==
    IF risk_level = "None" /\ Nonzero(cash) /\ cash[1] > 10000
    THEN [overall |-> "Hold/Accumulate",
          reasons |-> Append(r.reasons, "No dilution risk with adequate cash reserves")]
    ELSE IF risk_level = "Very High"
    THEN [overall |-> "Avoid/Sell",
          reasons |-> Append(r.reasons, "Very high ATM risk")]
    ELSE IF risk_level = "High"
    THEN [overall |-> "Sell/Short-term only",
          reasons |-> Append(r.reasons, "High ATM risk")]
    ELSE IF risk_level = "Medium-High"
    THEN [overall |-> "Caution/Short-term",
          reasons |-> Append(r.reasons, "Medium-High ATM risk")]
    ELSE IF risk_level = "Medium"
    THEN [overall |-> "Hold with caution",
          reasons |-> Append(r.reasons, "Moderate dilution risk")]
    ELSE r

\* the cash/debt ratio check (thresholds 1.5 and 0.25, in tenths of a percent)
CashRatioCheck(r, cash_ratio) ==
    IF cash_ratio = None THEN r
    ELSE IF cash_ratio[1] > 1500
    THEN [overall |-> IF r.overall # "Avoid/Sell" THEN "Hold/Accumulate"
                      ELSE r.overall,
          reasons |-> Append(r.reasons, "Strong cash position relative to debt")]
    ELSE IF cash_ratio[1] < 250
    THEN [overall |-> IF "High" \notin WordsOf(r.overall) THEN "Reduce/Caution"
                      ELSE r.overall,
          reasons |-> Append(r.reasons, "Weak cash position relative to debt")]
    ELSE r

\* the burn rate check (thresholds 3 and 6 months, in tenths of a month)
BurnRateCheck(r, burn) ==
    IF burn = None THEN r
    ELSE IF burn[1] < 30
    THEN [overall |-> IF "Avoid" \notin WordsOf(r.overall) THEN "Reduce/Avoid"
                      ELSE r.overall,
          reasons |-> Append(r.reasons, "Critical burn rate")]
    ELSE IF burn[1] < 60
    THEN [overall |-> IF /\ "Caution" \notin WordsOf(r.overall)
                         /\ "Avoid" \notin WordsOf(r.overall)
                      THEN "Caution/Reduce" ELSE r.overall,
          reasons |-> Append(r.reasons, "Concerning burn rate")]
    ELSE r

\* the active shelf check (it changes the reasons and the strategy only)
ShelfCheck(r, has_shelf) ==
    IF has_shelf
    THEN [r EXCEPT !.reasons = Append(r.reasons,
             "Active shelf registration increases dilution possibility")]
    ELSE r

\* the absolute cash check (thresholds micro_cash and small_cash)
CashCheck(r, cash) ==
    IF ~Nonzero(cash) THEN r
    ELSE IF cash[1] < 5000
    THEN [overall |-> IF "Avoid" \notin WordsOf(r.overall) THEN "Avoid/Sell"
                      ELSE r.overall,
          reasons |-> Append(r.reasons, "Extremely low cash reserves")]
    ELSE IF cash[1] < 10000
    THEN [overall |-> IF /\ "Caution" \notin WordsOf(r.overall)
                         /\ "Avoid" \notin WordsOf(r.overall)
                      THEN "Caution/Reduce" ELSE r.overall,
          reasons |-> Append(r.reasons, "Low cash reserves")]
    ELSE r

\* generate_trading_recommendations: the recommendation after the default,
\* the baseline and each of the four later checks, in the order of the code
generate_trading_recommendations(data) ==
    LET s1 == DefaultStance
        s2 == BaselineStance(s1, data.risk_level, data.cash)
        s3 == CashRatioCheck(s2, data.cash_ratio)
        s4 == BurnRateCheck(s3, data.burn_rate)
        s5 == ShelfCheck(s4, data.valid_shelf > 0)
        s6 == CashCheck(s5, data.cash)
    IN  <<s1, s2, s3, s4, s5, s6>>

NoAssessment ==
    [Error |-> "none", risk_level |-> Absent, cash |-> None, valid_shelf |-> 0,
     cash_ratio |-> None, burn_rate |-> None, steps |-> <<>>]

\* get_company_data: the error record when the ticker has no CIK or a call
\* raises, else the assessment
get_company_data(filings, cash, debt, op_cash_flow, outcome) ==
    IF outcome = "no_cik" THEN [NoAssessment EXCEPT !.Error = "CIK not found"]
    ELSE IF outcome = "raises" THEN [NoAssessment EXCEPT !.Error = "exception"]
    ELSE LET burn == burn_rate(cash, op_cash_flow)
             data == [Error |-> "none",
                      risk_level |-> calculate_atm_risk(Len(valid_shelf(filings)) > 0,
                                                        cash, debt, burn),
                      cash |-> cash,
                      valid_shelf |-> Len(valid_shelf(filings)),
                      cash_ratio |-> cash_ratio_str(cash, debt),
                      burn_rate |-> burn_rate_str(burn),
                      steps |-> <<>>]
         IN  [data EXCEPT !.steps = generate_trading_recommendations(data)]

\* the analyzer of the pipeline model, whose result is drawn from SecVals
SecIdle ==
    [filings |-> <<>>, cash |-> None, debt |-> None, op_cash_flow |-> None,
     outcome |-> "ok", done |-> FALSE, result |-> NoAssessment]

(***************************************************************************)
(* SymbolMerger (src/data_handler/_data_handler.py) and DataMerge          *)
(* (src/data_handler/merge_data.py).  A partial record is a function from  *)
(* the keys it has to their values; Null is Python None.                   *)
(***************************************************************************)
\* the field superset of merge_fundamentals_and_price_data (a part of it)
all_keys ==
    {"symbol", "name", "outstandingShares", "float", "day_high", "day_close"}

EmptyDict == <<>>

\* {item['symbol']: item for item in items if item.get('symbol')}, looked up
\* at symbol: the last such item, or no entry
InSymbolMap(items, symbol) ==
    \E i \in 1..Len(items) :
        /\ "symbol" \in DOMAIN items[i]
        /\ Truthy(items[i]["symbol"])
        /\ items[i]["symbol"] = symbol

SymbolMapAt(items, symbol) ==
    LET idx == {i \in 1..Len(items) :
                   /\ "symbol" \in DOMAIN items[i]
                   /\ Truthy(items[i]["symbol"])
                   /\ items[i]["symbol"] = symbol}
    IN  items[CHOOSE i \in idx : \A j \in idx : j <= i]

\* a merge in which the fundamentals are applied after the price results
merge_price_first(list_of_symbols, fundamentals, price_results) ==
    [n \in 1..Len(list_of_symbols) |->
        LET symbol == list_of_symbols[n]
            record == [key \in all_keys |->
                          IF key = "symbol" THEN symbol ELSE Null]
            r1 == IF InSymbolMap(price_results, symbol)
                  THEN DictMerge(record, SymbolMapAt(price_results, symbol))
                  ELSE record
        IN  IF InSymbolMap(fundamentals, symbol)
            THEN DictMerge(r1, SymbolMapAt(fundamentals, symbol))
            ELSE r1]

\* SymbolMerger.merge
merge(list_of_symbols, fundamentals, price_results) ==
    [n \in 1..Len(list_of_symbols) |->
        LET symbol == list_of_symbols[n]
            record == [key \in all_keys |->
                          IF key = "symbol" THEN symbol ELSE Null]
            r1 == IF InSymbolMap(fundamentals, symbol)
                  THEN DictMerge(record, SymbolMapAt(fundamentals, symbol))
                  ELSE record
        IN  IF InSymbolMap(price_results, symbol)
            THEN DictMerge(r1, SymbolMapAt(price_results, symbol))
            ELSE r1]

\* squeeze_data = squeeze_results_map[symbol].copy(); pop('symbol')
PopSymbol(d) == [k \in DOMAIN d \ {"symbol"} |-> d[k]]

\* perform_short_squeeze_analysis, lines 166-179: each merged record is
\* updated with the squeeze result of its symbol, the symbol key left out
merge_squeeze(merged, squeeze_results) ==
    [n \in 1..Len(merged) |->
        IF /\ Truthy(merged[n]["symbol"])
           /\ InSymbolMap(squeeze_results, merged[n]["symbol"])
        THEN DictMerge(merged[n],
                       PopSymbol(SymbolMapAt(squeeze_results, merged[n]["symbol"])))
        ELSE merged[n]]

\* DataMerge.__init__ normalize: the items that have a symbol key (the keys
\* of the model are lower case already)
normalize(data) == SelectSeq(data, LAMBDA item : "symbol" \in DOMAIN item)

\* {item["symbol"]: item for item in data}.get(symbol, {})
DataMapGet(data, symbol) ==
    LET idx == {i \in 1..Len(data) : data[i]["symbol"] = symbol}
    IN  IF idx = {} THEN EmptyDict
        ELSE data[CHOOSE i \in idx : \A j \in idx : j <= i]

\* DataMerge.merge_data_by_symbol: the records it appends to self.merged_data
merge_data_by_symbol(data1, data2, list_of_symbols) ==
    [n \in 1..Len(list_of_symbols) |->
        DictMerge(DataMapGet(data1, list_of_symbols[n]),
                  DataMapGet(data2, list_of_symbols[n]))]

\* no merger at work: the pipeline model draws merged results from FundVals
MergerIdle ==
    [list_of_symbols |-> <<>>, fundamentals |-> <<>>, price_results |-> <<>>,
     squeeze_results |-> <<>>, given |-> <<>>, returned |-> <<>>,
     final |-> <<>>, squeezed |-> FALSE, merged_data |-> <<>>,
     dm_returned |-> <<>>]

(***************************************************************************)
(* State.                                                                  *)
(*   today       the New York calendar date (the wall clock)               *)
(*   store       the collection fundamentals_of_top_list_symbols           *)
(*   nextId      the next ObjectId the server hands out                    *)
(*   tokenValid  cache/.tz_token_cache.json holds an unexpired token       *)
(*   pc          per process: where its DataHandler.run stands             *)
(*   ny_today    per process: the module-level ny_today, set at import     *)
(*   dh          per process: the DataHandler instance and run's locals    *)
(*   hist        per process: how the run that just ended ended            *)
(*   produced    the <<symbol, kind>> for which an analysis result was     *)
(*               generated on the current date (history)                   *)
(*   chart       a ChartAnalyzer instance: its three bar series, the       *)
(*               requested level_number and what run() returned            *)
(*   scanner     a ShortSqueezeScanner instance: the row it was handed,    *)
(*               the arguments of run() and the columns run() computed     *)
(*   sec         a SECFinancialAnalyzer.get_company_data call: what the    *)
(*               SEC returned for the symbol and the assessment built      *)
(*   merger      a SymbolMerger and a DataMerge instance over the same     *)
(*               partial-record lists, and what their calls returned       *)
(***************************************************************************)
VARIABLES today, store, nextId, tokenValid, pc, ny_today, dh, hist, produced,
          chart, scanner, sec, merger

vars == <<today, store, nextId, tokenValid, pc, ny_today, dh, hist, produced,
          chart, scanner, sec, merger>>

DhInit ==
    [list_of_symbols |-> <<>>,
     idx |-> 0,
     prices |-> [s \in Symbols |-> Unset],
     fund |-> [s \in Symbols |-> Unset],
     local_today |-> 0,
     recent |-> {},
     cache |-> [valid |-> FALSE, docs |-> {}],
     to_analyze |-> <<>>,
     new_suggestions |-> <<>>,
     analysis_results |-> <<>>]

\* what is known of the run in progress or just ended: the exception that
\* left it, what run returned, the symbols handed to the SEC analyzer, and
\* the two lists of build_final_results
HistInit ==
    [err |-> "none", returned |-> "none", symbols |-> <<>>, analyzed |-> {},
     final_fundamentals |-> {}, final_sec_analyses |-> {}]

Init ==
    /\ today = 1
    /\ store = {}
    /\ nextId = 1
    /\ tokenValid \in BOOLEAN
    /\ pc = [p \in Procs |-> "idle"]
    /\ ny_today = [p \in Procs |-> 1]
    /\ dh = [p \in Procs |-> DhInit]
    /\ hist = [p \in Procs |-> HistInit]
    /\ produced = {}
    /\ merger = MergerIdle
    /\ chart = ChartIdle
    /\ scanner = ScannerIdle
    /\ sec = SecIdle

\* TzAuth.__init__: the cached token if unexpired, else login (which caches
\* the new token) or ValueError("Login failed")
TzAuthRaises(valid, loginOk) == ~valid /\ ~loginOk

\* an exception leaves DataHandler.run: run_main catches it, nothing is
\* returned, and the DataHandler instance is dropped
Abort(p, why) ==
    /\ pc' = [pc EXCEPT ![p] = "ended"]
    /\ dh' = [dh EXCEPT ![p] = DhInit]
    /\ hist' = [hist EXCEPT ![p].err = why, ![p].returned = "none"]

(***************************************************************************)
(* DataHandler() and the head of run: list_of_symbols, _db_cache.clear().  *)
(***************************************************************************)
StartRun(p, lists) ==
    /\ pc[p] = "idle"
    /\ \E syms \in lists, loginOk \in BOOLEAN :
          /\ ~TzAuthRaises(tokenValid, loginOk)
          /\ tokenValid' = TRUE
          /\ dh' = [dh EXCEPT ![p] = [DhInit EXCEPT !.list_of_symbols = syms, !.idx = 1]]
    /\ pc' = [pc EXCEPT ![p] = "price"]
    /\ UNCHANGED <<today, store, nextId, ny_today, hist, produced, chart, scanner, sec, merger>>

\* the constructors' TzAuth() raises: no run starts
ConstructFails(p) ==
    /\ pc[p] = "idle"
    /\ TzAuthRaises(tokenValid, FALSE)
    /\ pc' = [pc EXCEPT ![p] = "ended"]
    /\ hist' = [hist EXCEPT ![p].err = "config_startup"]
    /\ UNCHANGED <<today, store, nextId, tokenValid, ny_today, dh, produced, chart, scanner, sec, merger>>

(***************************************************************************)
(* handle_symbols.  get_price_analyzer_results builds one ChartAnalyzer    *)
(* per symbol (each runs TzAuth() and fetches the bars); then the          *)
(* fundamentals batch is fetched, merged and scored.                       *)
(***************************************************************************)
\* a symbol loop that persists each price result as soon as it is computed
PriceStepDurable(p) ==
    /\ pc[p] = "price"
    /\ dh[p].idx <= Len(dh[p].list_of_symbols)
    /\ \E loginOk \in BOOLEAN, pr \in PriceVals \cup {Null} :
          LET sym == dh[p].list_of_symbols[dh[p].idx]
              r == upsert_doc(store, nextId, [symbol |-> sym, today_date |-> today],
                              [symbol |-> sym, price |-> pr], today, TRUE)
          IN  /\ ~TzAuthRaises(tokenValid, loginOk)
              /\ r.nextId <= MaxDocs + 1
              /\ tokenValid' = TRUE
              /\ store' = r.store
              /\ nextId' = r.nextId
              /\ dh' = [dh EXCEPT ![p].prices[sym] = pr, ![p].idx = @ + 1]
    /\ UNCHANGED <<today, pc, ny_today, hist, produced, chart, scanner, sec, merger>>

PriceStep(p) ==
    /\ pc[p] = "price"
    /\ dh[p].idx <= Len(dh[p].list_of_symbols)
    /\ \E loginOk \in BOOLEAN, pr \in PriceVals \cup {Null} :
          /\ ~TzAuthRaises(tokenValid, loginOk)
          /\ tokenValid' = TRUE
          /\ dh' = [dh EXCEPT ![p].prices[dh[p].list_of_symbols[dh[p].idx]] = pr,
                              ![p].idx = @ + 1]
    /\ UNCHANGED <<today, store, nextId, pc, ny_today, hist, produced, chart, scanner, sec, merger>>

\* ChartAnalyzer.__init__ -> TzAuth() raises ValueError inside the symbol loop
PriceAuthFails(p) ==
    /\ pc[p] = "price"
    /\ dh[p].idx <= Len(dh[p].list_of_symbols)
    /\ TzAuthRaises(tokenValid, FALSE)
    /\ Abort(p, "config_midbatch")
    /\ UNCHANGED <<today, store, nextId, tokenValid, ny_today, produced, chart, scanner, sec, merger>>

\* fetch_symbols (one batch call; [] on failure), SymbolMerger.merge and
\* perform_short_squeeze_analysis: one record per listed symbol, None where a
\* source supplied nothing
FundStep(p) ==
    /\ pc[p] = "price"
    /\ dh[p].idx > Len(dh[p].list_of_symbols)
    /\ dh[p].list_of_symbols # <<>>
    /\ \E v \in FundVals \cup {Null} :
          dh' = [dh EXCEPT ![p].fund =
                    [s \in Symbols |->
                        IF s \in Range(dh[p].list_of_symbols) THEN v ELSE Unset]]
    /\ pc' = [pc EXCEPT ![p] = "store_read"]
    /\ UNCHANGED <<today, store, nextId, tokenValid, ny_today, hist, produced, chart, scanner, sec, merger>>

\* run on an empty list: handle_symbols yields no record, run returns [], []
NoFundamentals(p) ==
    /\ pc[p] = "price"
    /\ dh[p].list_of_symbols = <<>>
    /\ pc' = [pc EXCEPT ![p] = "ended"]
    /\ dh' = [dh EXCEPT ![p] = DhInit]
    /\ hist' = [hist EXCEPT ![p].returned = "empty"]
    /\ UNCHANGED <<today, store, nextId, tokenValid, ny_today, produced, chart, scanner, sec, merger>>

(***************************************************************************)
(* store_fundamentals_in_db.                                               *)
(***************************************************************************)
LookBack == 7

\* date_list: today and the six days before it
DateList(d) == {d - i : i \in 0..(LookBack - 1)}

\* the merged record of one symbol, as store_fundamentals_in_db holds it after
\* fundamental["today_date"] = ny_today (the function's own, fresh, date)
Fundamental(p, sym) ==
    [symbol |-> sym, today_date |-> dh[p].local_today,
     fund |-> dh[p].fund[sym], price |-> dh[p].prices[sym]]

\* what is handed to upsert_doc for one symbol: {**latest_doc, **fundamental}
\* when the look-back found a document of the symbol, else the record alone
StoreData(p, sym) ==
    LET recent_docs == {d \in dh[p].recent : d.symbol = sym}
    IN  IF recent_docs # {}
        THEN DictMerge(AsDict(LatestDoc(recent_docs)), Fundamental(p, sym))
        ELSE Fundamental(p, sym)

\* ny_today = now; recent_fundamental_docs = find_doc(symbols, last 7 days)
StoreRead(p) ==
    /\ pc[p] = "store_read"
    /\ dh' = [dh EXCEPT ![p].local_today = today,
                           ![p].recent = find_doc(store, TRUE,
                                                  Range(dh[p].list_of_symbols),
                                                  DateList(today)),
                           ![p].idx = 1]
    /\ pc' = [pc EXCEPT ![p] = "store_write"]
    /\ UNCHANGED <<today, store, nextId, tokenValid, ny_today, hist, produced, chart, scanner, sec, merger>>

\* one iteration of the loop over self.fundamentals: one upsert
StoreWrite(p) ==
    /\ pc[p] = "store_write"
    /\ dh[p].idx <= Len(dh[p].list_of_symbols)
    /\ LET sym == dh[p].list_of_symbols[dh[p].idx]
       IN  \E connected \in BOOLEAN :
              LET r == upsert_doc(store, nextId,
                                  [symbol |-> sym, today_date |-> dh[p].local_today],
                                  StoreData(p, sym), today, connected)
              IN  /\ r.nextId <= MaxDocs + 1
                  /\ store' = r.store
                  /\ nextId' = r.nextId
    /\ dh' = [dh EXCEPT ![p].idx = @ + 1]
    /\ UNCHANGED <<today, tokenValid, pc, ny_today, hist, produced, chart, scanner, sec, merger>>

\* the verification query after the loop: it only logs
StoreVerify(p) ==
    /\ pc[p] = "store_write"
    /\ dh[p].idx > Len(dh[p].list_of_symbols)
    /\ dh' = [dh EXCEPT ![p].recent = {}]
    /\ pc' = [pc EXCEPT ![p] = "sugg_gate"]
    /\ UNCHANGED <<today, store, nextId, tokenValid, ny_today, hist, produced, chart, scanner, sec, merger>>

(***************************************************************************)
(* _get_db_documents: the (symbol in list, today_date = ny_today) documents,*)
(* through _db_cache.  The date is the module-level ny_today.              *)
(***************************************************************************)
GetDbDocuments(p, force_refresh, connected) ==
    IF ~force_refresh /\ dh[p].cache.valid
    THEN dh[p].cache
    ELSE [valid |-> TRUE,
          docs |-> find_doc(store, connected, Range(dh[p].list_of_symbols),
                            {ny_today[p]})]

\* symbols_to_analyze: the listed symbols with no truthy `key` in documents
SymbolsToAnalyze(list, documents, key) ==
    LET have == {d.symbol : d \in {e \in documents : Truthy(e[key])}}
        keep(s) == s \notin have
    IN  SelectSeq(list, keep)

(***************************************************************************)
(* process_suggestions.                                                    *)
(***************************************************************************)
SuggGate(p) ==
    /\ pc[p] = "sugg_gate"
    /\ LET c == GetDbDocuments(p, FALSE, TRUE)
              todo == SymbolsToAnalyze(dh[p].list_of_symbols, c.docs, "suggestion")
          IN  /\ dh' = [dh EXCEPT ![p].cache = c, ![p].to_analyze = todo,
                                  ![p].new_suggestions = <<>>, ![p].idx = 1]
              /\ pc' = [pc EXCEPT ![p] =
                           IF todo = <<>> THEN "sec_gate" ELSE "sugg_fetch"]
    /\ UNCHANGED <<today, store, nextId, tokenValid, ny_today, hist, produced, chart, scanner, sec, merger>>

\* one iteration of get_symbols_news_and_analyze: the news request fails (the
\* symbol is skipped) or the summaries and the suggestion are generated
SuggFetch(p) ==
    /\ pc[p] = "sugg_fetch"
    /\ dh[p].idx <= Len(dh[p].to_analyze)
    /\ LET sym == dh[p].to_analyze[dh[p].idx]
       IN  \E out \in SuggVals \cup {"request_failed"} :
              /\ dh' = [dh EXCEPT ![p].new_suggestions =
                           IF out = "request_failed" THEN @
                           ELSE Append(@, [symbol |-> sym, suggestion |-> out]),
                                  ![p].idx = @ + 1]
              /\ produced' = IF out = "request_failed" THEN produced
                             ELSE produced \cup {<<sym, "suggestion">>}
    /\ UNCHANGED <<today, store, nextId, tokenValid, pc, ny_today, hist, chart, scanner, sec, merger>>

\* the text-generation call raises: only requests' exceptions are caught
SuggFetchRaises(p) ==
    /\ pc[p] = "sugg_fetch"
    /\ dh[p].idx <= Len(dh[p].to_analyze)
    /\ Abort(p, "text_generation")
    /\ UNCHANGED <<today, store, nextId, tokenValid, ny_today, produced, chart, scanner, sec, merger>>

\* get_symbols_news_and_analyze returned: the upsert loop starts
SuggFetched(p) ==
    /\ pc[p] = "sugg_fetch"
    /\ dh[p].idx > Len(dh[p].to_analyze)
    /\ dh' = [dh EXCEPT ![p].idx = 1]
    /\ pc' = [pc EXCEPT ![p] = "sugg_write"]
    /\ UNCHANGED <<today, store, nextId, tokenValid, ny_today, hist, produced, chart, scanner, sec, merger>>

\* one upsert of {"suggestion": ...} under (symbol, ny_today)
SuggWrite(p) ==
    /\ pc[p] = "sugg_write"
    /\ dh[p].idx <= Len(dh[p].new_suggestions)
    /\ LET sg == dh[p].new_suggestions[dh[p].idx]
       IN  \E connected \in BOOLEAN :
              LET r == upsert_doc(store, nextId,
                                  [symbol |-> sg.symbol, today_date |-> ny_today[p]],
                                  [suggestion |-> sg.suggestion], today, connected)
              IN  /\ r.nextId <= MaxDocs + 1
                  /\ store' = r.store
                  /\ nextId' = r.nextId
    /\ dh' = [dh EXCEPT ![p].idx = @ + 1]
    /\ UNCHANGED <<today, tokenValid, pc, ny_today, hist, produced, chart, scanner, sec, merger>>

\* self._get_db_documents(force_refresh=True)
SuggRefresh(p) ==
    /\ pc[p] = "sugg_write"
    /\ dh[p].idx > Len(dh[p].new_suggestions)
    /\ dh' = [dh EXCEPT ![p].cache = GetDbDocuments(p, TRUE, TRUE),
                        ![p].to_analyze = <<>>, ![p].new_suggestions = <<>>]
    /\ pc' = [pc EXCEPT ![p] = "sec_gate"]
    /\ UNCHANGED <<today, store, nextId, tokenValid, ny_today, hist, produced, chart, scanner, sec, merger>>


(***************************************************************************)
(* process_sec_analysis.                                                   *)
(***************************************************************************)
SecGate(p) ==
    /\ pc[p] = "sec_gate"
    /\ LET c == GetDbDocuments(p, FALSE, TRUE)
              todo == SymbolsToAnalyze(dh[p].list_of_symbols, c.docs,
                                       "sec_filing_analysis")
          IN  /\ dh' = [dh EXCEPT ![p].cache = c, ![p].to_analyze = todo,
                                  ![p].analysis_results = <<>>, ![p].idx = 1]
              /\ pc' = [pc EXCEPT ![p] =
                           IF todo = <<>> THEN "final" ELSE "sec_run"]
    /\ UNCHANGED <<today, store, nextId, tokenValid, ny_today, hist, produced, chart, scanner, sec, merger>>

\* SECFinancialAnalyzer.run_analysis with the CIK map loaded: one result per
\* symbol, a full assessment ("ok") or an error record ("err"); print_results
\* then selects the report columns, which exist only if some result is "ok"
RunAnalysis(list, outcome) ==
    [i \in 1..Len(list) |-> [Symbol |-> list[i], res |-> outcome[list[i]]]]

PrintResultsRaises(results) ==
    \A i \in 1..Len(results) : results[i].res = "err"

SecRun(p) ==
    /\ pc[p] = "sec_run"
    /\ \E outcome \in [Range(dh[p].to_analyze) -> SecVals] :
          LET results == RunAnalysis(dh[p].to_analyze, outcome)
          IN  /\ ~PrintResultsRaises(results)
              /\ dh' = [dh EXCEPT ![p].analysis_results = results, ![p].idx = 1]
    /\ produced' = produced \cup
                      {<<s, "sec_filing_analysis">> : s \in Range(dh[p].to_analyze)}
    /\ hist' = [hist EXCEPT ![p].analyzed = Range(dh[p].to_analyze)]
    /\ pc' = [pc EXCEPT ![p] = "sec_write"]
    /\ UNCHANGED <<today, store, nextId, tokenValid, ny_today, chart, scanner, sec, merger>>

\* load_cik_mapping fails: run_analysis returns None and the loop over
\* analysis_results raises TypeError
SecRunNoCikMap(p) ==
    /\ pc[p] = "sec_run"
    /\ Abort(p, "cik_map")
    /\ UNCHANGED <<today, store, nextId, tokenValid, ny_today, produced, chart, scanner, sec, merger>>

\* every analysed symbol yields an error record: print_results raises KeyError
SecRunAllErrors(p) ==
    /\ pc[p] = "sec_run"
    /\ PrintResultsRaises(RunAnalysis(dh[p].to_analyze,
                                      [s \in Range(dh[p].to_analyze) |-> "err"]))
    /\ Abort(p, "sec_report")
    /\ produced' = produced \cup
                      {<<s, "sec_filing_analysis">> : s \in Range(dh[p].to_analyze)}
    /\ UNCHANGED <<today, store, nextId, tokenValid, ny_today, chart, scanner, sec, merger>>

\* one upsert of {"sec_filing_analysis": ...} under (symbol, ny_today)
SecWrite(p) ==
    /\ pc[p] = "sec_write"
    /\ dh[p].idx <= Len(dh[p].analysis_results)
    /\ LET ar == dh[p].analysis_results[dh[p].idx]
       IN  \E connected \in BOOLEAN :
              LET r == upsert_doc(store, nextId,
                                  [symbol |-> ar.Symbol, today_date |-> ny_today[p]],
                                  [sec_filing_analysis |-> ar.res], today, connected)
              IN  /\ r.nextId <= MaxDocs + 1
                  /\ store' = r.store
                  /\ nextId' = r.nextId
    /\ dh' = [dh EXCEPT ![p].idx = @ + 1]
    /\ UNCHANGED <<today, tokenValid, pc, ny_today, hist, produced, chart, scanner, sec, merger>>

\* an end of the upsert loop that leaves the cached list as it is
SecRefreshKeepsCache(p) ==
    /\ pc[p] = "sec_write"
    /\ dh[p].idx > Len(dh[p].analysis_results)
    /\ dh' = [dh EXCEPT ![p].to_analyze = <<>>, ![p].analysis_results = <<>>]
    /\ pc' = [pc EXCEPT ![p] = "final"]
    /\ UNCHANGED <<today, store, nextId, tokenValid, ny_today, hist, produced, chart, scanner, sec, merger>>

\* self._get_db_documents(force_refresh=True)
SecRefresh(p) ==
    /\ pc[p] = "sec_write"
    /\ dh[p].idx > Len(dh[p].analysis_results)
    /\ dh' = [dh EXCEPT ![p].cache = GetDbDocuments(p, TRUE, TRUE),
                        ![p].to_analyze = <<>>, ![p].analysis_results = <<>>]
    /\ pc' = [pc EXCEPT ![p] = "final"]
    /\ UNCHANGED <<today, store, nextId, tokenValid, ny_today, hist, produced, chart, scanner, sec, merger>>

(***************************************************************************)
(* build_final_results and check_merge_errors.                             *)
(***************************************************************************)
\* documents of the collection without the key close_change_percentage
MergeErrors(st, connected) ==
    IF connected THEN {d \in st : d.price = Absent} ELSE {}

\* build_final_results: every document of _get_db_documents() goes to the
\* first list, and the sec_filing_analysis of every document that has the key
\* to the second (an assessment carries its Symbol; `of` tells the entries of
\* two documents apart)
build_final_results(p) ==
    LET documents == GetDbDocuments(p, FALSE, TRUE).docs
    IN  [final_fundamentals |-> documents,
         final_sec_analyses |->
            {[Symbol |-> d.symbol, res |-> d.sec_filing_analysis, of |-> d.id] :
                d \in {e \in documents : e.sec_filing_analysis # Absent}}]

\* run returns (final_fundamentals, final_sec_analyses)
Final(p) ==
    /\ pc[p] = "final"
    /\ MergeErrors(store, TRUE) = {}
    /\ dh' = [dh EXCEPT ![p] = DhInit]
    /\ pc' = [pc EXCEPT ![p] = "ended"]
    /\ hist' = [hist EXCEPT
                   ![p].returned = "lists",
                   ![p].symbols = dh[p].list_of_symbols,
                   ![p].final_fundamentals =
                       build_final_results(p).final_fundamentals,
                   ![p].final_sec_analyses =
                       build_final_results(p).final_sec_analyses]
    /\ UNCHANGED <<today, store, nextId, tokenValid, ny_today, produced, chart, scanner, sec, merger>>

\* check_merge_errors finds a document and calls exit(): the process ends
FinalExit(p) ==
    /\ pc[p] = "final"
    /\ MergeErrors(store, TRUE) # {}
    /\ pc' = [pc EXCEPT ![p] = "exited"]
    /\ dh' = [dh EXCEPT ![p] = DhInit]
    /\ hist' = [hist EXCEPT ![p] = [HistInit EXCEPT !.err = "exit"]]
    /\ UNCHANGED <<today, store, nextId, tokenValid, ny_today, produced, chart, scanner, sec, merger>>

(***************************************************************************)
(* The environment: the host process is terminated and started again (the  *)
(* module is imported anew, ny_today is recomputed), the calendar date     *)
(* advances, the cached token expires.                                     *)
(***************************************************************************)
\* the scheduler loop of the entry point goes on to its next tick
NextTick(p) ==
    /\ pc[p] = "ended"
    /\ pc' = [pc EXCEPT ![p] = "idle"]
    /\ hist' = [hist EXCEPT ![p] = HistInit]
    /\ UNCHANGED <<today, store, nextId, tokenValid, ny_today, dh, produced, chart, scanner, sec, merger>>

Kill(p) ==
    /\ pc[p] \notin {"down", "exited"}
    /\ pc' = [pc EXCEPT ![p] = "down"]
    /\ dh' = [dh EXCEPT ![p] = DhInit]
    /\ hist' = [hist EXCEPT ![p] = HistInit]
    /\ UNCHANGED <<today, store, nextId, tokenValid, ny_today, produced, chart, scanner, sec, merger>>

Restart(p) ==
    /\ pc[p] \in {"down", "exited"}
    /\ pc' = [pc EXCEPT ![p] = "idle"]
    /\ ny_today' = [ny_today EXCEPT ![p] = today]
    /\ hist' = [hist EXCEPT ![p] = HistInit]
    /\ UNCHANGED <<today, store, nextId, tokenValid, dh, produced, chart, scanner, sec, merger>>

Midnight ==
    /\ today < MaxDay
    /\ today' = today + 1
    /\ produced' = {}
    /\ UNCHANGED <<store, nextId, tokenValid, pc, ny_today, dh, hist, chart, scanner, sec, merger>>

TokenExpire ==
    /\ tokenValid
    /\ tokenValid' = FALSE
    /\ UNCHANGED <<today, store, nextId, pc, ny_today, dh, hist, produced, chart, scanner, sec, merger>>

\* the steps of one DataHandler.run
RunStep(p, lists) ==
    \/ StartRun(p, lists) \/ ConstructFails(p)
    \/ PriceStep(p) \/ PriceAuthFails(p) \/ NoFundamentals(p) \/ FundStep(p)
    \/ StoreRead(p) \/ StoreWrite(p) \/ StoreVerify(p)
    \/ SuggGate(p) \/ SuggFetch(p) \/ SuggFetchRaises(p) \/ SuggFetched(p)
    \/ SuggWrite(p) \/ SuggRefresh(p)
    \/ SecGate(p) \/ SecRun(p) \/ SecRunNoCikMap(p) \/ SecRunAllErrors(p)
    \/ SecWrite(p) \/ SecRefresh(p)
    \/ Final(p) \/ FinalExit(p)

\* one pipeline instance, run after run and day after day
Next ==
    \/ RunStep(1, DailyLists)
    \/ NextTick(1) \/ Kill(1) \/ Restart(1)
    \/ Midnight \/ TokenExpire

Spec == Init /\ [][Next]_vars

\* one run of one pipeline instance over a two-symbol batch
NextBatch == RunStep(1, BatchLists) \/ Kill(1) \/ TokenExpire

SpecBatch == Init /\ [][NextBatch]_vars

\* the steps of a run in which no call raises
ConcStep(p) ==
    \/ StartRun(p, ConcLists) \/ PriceStep(p) \/ FundStep(p)
    \/ StoreRead(p) \/ StoreWrite(p) \/ StoreVerify(p)
    \/ SuggGate(p) \/ SuggFetch(p) \/ SuggFetched(p)
    \/ SuggWrite(p) \/ SuggRefresh(p)
    \/ SecGate(p) \/ SecRun(p) \/ SecWrite(p) \/ SecRefresh(p)
    \/ Final(p) \/ FinalExit(p)

\* two pipeline instances against the same store on one day: the first runs
\* tick after tick, the second is started once
NextConc == ConcStep(1) \/ NextTick(1) \/ ConcStep(2)

SpecConc == Init /\ [][NextConc]_vars

(***************************************************************************)
(* ChartAnalyzer on every combination of bar series drawn from the pools.  *)
(***************************************************************************)
InitChart ==
    /\ today = 1
    /\ store = {}
    /\ nextId = 1
    /\ tokenValid = TRUE
    /\ pc = [p \in Procs |-> "idle"]
    /\ ny_today = [p \in Procs |-> 1]
    /\ dh = [p \in Procs |-> DhInit]
    /\ hist = [p \in Procs |-> HistInit]
    /\ produced = {}
    /\ merger = MergerIdle
    /\ \E d1m \in Series(Pool1m), d5m \in Series(Pool5m), d1d \in Series(Pool1d),
          n \in 0..MaxN :
          chart = [ChartIdle EXCEPT !.data_1m = d1m, !.data_5m = d5m,
                                    !.data_1d = d1d, !.level_number = n]
    /\ scanner = ScannerIdle
    /\ sec = SecIdle

\* ChartAnalyzer.run (day_high, day_low) and get_key_levels(level_number)
ChartRun ==
    /\ ~chart.done
    /\ LET last_day_data_1m == update_last_day_data(chart.data_1m)
       IN  chart' = [chart EXCEPT
                        !.done = TRUE,
                        !.result = [day_high |-> get_day_high(last_day_data_1m),
                                    day_low |-> get_day_low(last_day_data_1m),
                                    key_levels |-> get_key_levels(chart, chart.level_number)]]
    /\ UNCHANGED <<today, store, nextId, tokenValid, pc, ny_today, dh, hist,
                   produced, scanner, sec, merger>>

NextChart == ChartRun

SpecChart == InitChart /\ [][NextChart]_vars

(***************************************************************************)
(* ShortSqueezeScanner.run on every row and argument drawn from the pools. *)
(* A column option is <<>> (no such column) or <<cell>>.                   *)
(***************************************************************************)
FloatCells == {None, <<500>>, <<1000>>, <<6000>>}
OutstandingCells == {None, <<1000>>, <<20000>>}
CashCells == {None, <<100>>, <<5000>>}
BurnCells == {None, <<1>>, <<2>>, <<40>>}
ShelfCells == {None, <<-400>>, <<-365>>, <<91>>}
SuggestionCells ==
    {None, <<<<"Surge", "Bullish", "Milestone">>>>,
     <<<<"surge", "bullish", "sell">>>>,
     <<<<"surge", "bullish", "milestone", "sell">>>>}
ScanPrices == {None, <<1000>>, <<1480>>}
ScanHighs == {None, <<0>>, <<1500>>}
ShortInterests == {None, <<100>>, <<400>>}

Option(cells) == {<<>>} \cup {<<c>> : c \in cells}

ScannerColumns ==
    {"float", "outstandingshares", "cash (usd)", "burn rate (months)",
     "last shelf date", "suggestion"}

\* pd.DataFrame([new_data]) after _clean_data_types
Row(opt) == [c \in {k \in ScannerColumns : opt[k] # <<>>} |-> opt[c][1]]

InitScanner ==
    /\ today = 1
    /\ store = {}
    /\ nextId = 1
    /\ tokenValid = TRUE
    /\ pc = [p \in Procs |-> "idle"]
    /\ ny_today = [p \in Procs |-> 1]
    /\ dh = [p \in Procs |-> DhInit]
    /\ hist = [p \in Procs |-> HistInit]
    /\ produced = {}
    /\ merger = MergerIdle
    /\ chart = ChartIdle
    /\ sec = SecIdle
    /\ \E f \in Option(FloatCells), o \in Option(OutstandingCells),
          c \in Option(CashCells), b \in Option(BurnCells),
          d \in Option(ShelfCells), s \in Option(SuggestionCells),
          price \in ScanPrices, high \in ScanHighs, si \in ShortInterests :
          scanner = [ScannerIdle EXCEPT
                        !.data = Row([k \in ScannerColumns |->
                                        CASE k = "float" -> f
                                          [] k = "outstandingshares" -> o
                                          [] k = "cash (usd)" -> c
                                          [] k = "burn rate (months)" -> b
                                          [] k = "last shelf date" -> d
                                          [] OTHER -> s]),
                        !.current_price = price,
                        !.intraday_high = high,
                        !.short_interest = si]

\* ShortSqueezeScanner.run: setup_data, update_price, calculate_squeeze_risk,
\* calculate_atm_risk, generate_short_signals
ScannerRun ==
    /\ ~scanner.done
    /\ ~ShortSignalsRaise(scanner.current_price, scanner.intraday_high)
    /\ LET data == scanner.data
           score == calculate_squeeze_risk(data, scanner.current_price,
                                           scanner.short_interest)
           resistance == resistance_ok(scanner.current_price,
                                       scanner.intraday_high)
       IN  scanner' = [scanner EXCEPT
              !.done = TRUE,
              !.result = [float_risk |-> float_risk(data),
                          float_ratio_risk |-> float_ratio_risk(data),
                          cash_crisis |-> cash_crisis(data, scanner.current_price),
                          squeeze_score |-> score,
                          atm_urgency |-> atm_urgency(data),
                          resistance_ok |-> resistance,
                          hype_score |-> hype_score(data),
                          short_signal |-> short_signal(score, atm_urgency(data),
                                                        resistance,
                                                        hype_score(data))]]
    /\ UNCHANGED <<today, store, nextId, tokenValid, pc, ny_today, dh, hist,
                   produced, chart, sec, merger>>

\* ShortSqueezeScanner.run leaves by the ZeroDivisionError of
\* generate_short_signals
ScannerRaises ==
    /\ ~scanner.done
    /\ ShortSignalsRaise(scanner.current_price, scanner.intraday_high)
    /\ scanner' = [scanner EXCEPT !.done = TRUE, !.raised = TRUE]
    /\ UNCHANGED <<today, store, nextId, tokenValid, pc, ny_today, dh, hist,
                   produced, chart, sec, merger>>

NextScanner == ScannerRun \/ ScannerRaises

SpecScanner == InitScanner /\ [][NextScanner]_vars

(***************************************************************************)
(* SECFinancialAnalyzer.get_company_data on every combination of filings   *)
(* and reported metrics drawn from the pools.                              *)
(***************************************************************************)
FilingPool ==
    {<<form, age>> : form \in {"S-3", "F-3ASR", "10-K"},
                     age \in {10, three_years, 2000}}
FilingLists == {<<>>} \cup {<<f>> : f \in FilingPool}
                     \cup {<<f, g>> : f \in FilingPool, g \in FilingPool}
CashPool == {None, <<0>>, <<3000>>, <<7000>>, <<12000>>, <<50000>>}
DebtPool == {None, <<0>>, <<1000>>, <<10000>>, <<100000>>, <<600000>>}
OpCashFlowPool == {None, <<5000>>, <<-2000>>, <<-30000>>}
SecOutcomes == {"ok", "no_cik", "raises"}

InitSec ==
    /\ today = 1
    /\ store = {}
    /\ nextId = 1
    /\ tokenValid = TRUE
    /\ pc = [p \in Procs |-> "idle"]
    /\ ny_today = [p \in Procs |-> 1]
    /\ dh = [p \in Procs |-> DhInit]
    /\ hist = [p \in Procs |-> HistInit]
    /\ produced = {}
    /\ merger = MergerIdle
    /\ chart = ChartIdle
    /\ scanner = ScannerIdle
    /\ \E fl \in FilingLists, c \in CashPool, d \in DebtPool,
          o \in OpCashFlowPool, out \in SecOutcomes :
          sec = [SecIdle EXCEPT !.filings = fl, !.cash = c, !.debt = d,
                                !.op_cash_flow = o, !.outcome = out]

\* SECFinancialAnalyzer.get_company_data
SecAssess ==
    /\ ~sec.done
    /\ sec' = [sec EXCEPT !.done = TRUE,
                          !.result = get_company_data(sec.filings, sec.cash,
                                        sec.debt, sec.op_cash_flow, sec.outcome)]
    /\ UNCHANGED <<today, store, nextId, tokenValid, pc, ny_today, dh, hist,
                   produced, chart, scanner, merger>>

NextSec == SecAssess

SpecSec == InitSec /\ [][NextSec]_vars

(***************************************************************************)
(* SymbolMerger.merge, the squeeze update and DataMerge on every           *)
(* combination of partial-record lists drawn from the pools.  Within one   *)
(* source list the records have distinct symbols.                          *)
(***************************************************************************)
FundItems ==
    {[symbol |-> "A", name |-> "f1", float |-> "f1"],
     [symbol |-> "B", name |-> Null],
     [symbol |-> "B", name |-> "f2", sector |-> "f2"],
     [name |-> "f1"]}
PriceItems ==
    {[symbol |-> "A", day_high |-> "p1", day_close |-> "p1"],
     [symbol |-> "A", day_high |-> Null, name |-> "p1"],
     [symbol |-> "B", day_high |-> "p2", key_levels |-> "p2"],
     [symbol |-> Null, day_high |-> "p1"]}
SqueezeItems ==
    {[symbol |-> "A", squeeze_score |-> "q1"],
     [symbol |-> "B", squeeze_score |-> "q2", name |-> "q2"]}

DistinctSymbols(items) ==
    \A i, j \in 1..Len(items) :
        (/\ i # j /\ "symbol" \in DOMAIN items[i] /\ "symbol" \in DOMAIN items[j])
            => items[i]["symbol"] # items[j]["symbol"]

Lists(pool) ==
    {s \in {<<>>} \cup {<<x>> : x \in pool} \cup {<<x, y>> : x \in pool, y \in pool} :
        DistinctSymbols(s)}

MergeSymbolLists ==
    {<<>>, <<"A">>, <<"B">>, <<"C">>, <<"A", "B">>, <<"B", "A">>, <<"A", "C">>}

\* a merge is called at most this many times on the same inputs
MaxCalls == 2

InitMerge ==
    /\ today = 1
    /\ store = {}
    /\ nextId = 1
    /\ tokenValid = TRUE
    /\ pc = [p \in Procs |-> "idle"]
    /\ ny_today = [p \in Procs |-> 1]
    /\ dh = [p \in Procs |-> DhInit]
    /\ hist = [p \in Procs |-> HistInit]
    /\ produced = {}
    /\ chart = ChartIdle
    /\ scanner = ScannerIdle
    /\ sec = SecIdle
    /\ \E l \in MergeSymbolLists, f \in Lists(FundItems),
          p \in Lists(PriceItems), q \in Lists(SqueezeItems) :
          merger = [MergerIdle EXCEPT
                       !.list_of_symbols = l, !.fundamentals = f,
                       !.price_results = p, !.squeeze_results = q,
                       !.given = <<l, f, p>>]

\* merger.merge(list_of_symbols, fundamentals, price_analyzer_results)
SymbolMerge ==
    /\ Len(merger.returned) < MaxCalls
    /\ merger' = [merger EXCEPT
                     !.returned = Append(@, merge(merger.list_of_symbols,
                                                  merger.fundamentals,
                                                  merger.price_results))]
    /\ UNCHANGED <<today, store, nextId, tokenValid, pc, ny_today, dh, hist,
                   produced, chart, scanner, sec>>

\* perform_short_squeeze_analysis, lines 166-179, on the merged records
SqueezeMerge ==
    /\ Len(merger.returned) >= 1
    /\ ~merger.squeezed
    /\ merger' = [merger EXCEPT
                     !.squeezed = TRUE,
                     !.final = merge_squeeze(merger.returned[1],
                                             merger.squeeze_results)]
    /\ UNCHANGED <<today, store, nextId, tokenValid, pc, ny_today, dh, hist,
                   produced, chart, scanner, sec>>

\* DataMerge(fundamentals, price_results, list_of_symbols)
\* .merge_data_by_symbol(), called on the one instance: it appends to
\* self.merged_data and returns that list
DataMergeCall ==
    /\ Len(merger.dm_returned) < MaxCalls
    /\ LET merged_data ==
              merger.merged_data
                \o merge_data_by_symbol(normalize(merger.fundamentals),
                                        normalize(merger.price_results),
                                        merger.list_of_symbols)
       IN  merger' = [merger EXCEPT
                         !.merged_data = merged_data,
                         !.dm_returned = Append(@, merged_data)]
    /\ UNCHANGED <<today, store, nextId, tokenValid, pc, ny_today, dh, hist,
                   produced, chart, scanner, sec>>

NextMerge == SymbolMerge \/ SqueezeMerge \/ DataMergeCall

SpecMerge == InitMerge /\ [][NextMerge]_vars

(***************************************************************************)
(* handle_symbols: the records SymbolMerger builds from the fundamentals   *)
(* and price results of one symbol, handed as they are to                  *)
(* ShortSqueezeScanner.run by perform_short_squeeze_analysis.  A record    *)
(* value is Null or the string of a number (shares in thousands, prices in *)
(* thousandths).                                                           *)
(***************************************************************************)
\* the number a record value holds; None for null (NaN after pd.to_numeric)
NumberOf(v) ==
    CASE v = "0" -> <<0>>
      [] v = "500" -> <<500>>
      [] v = "1000" -> <<1000>>
      [] v = "1480" -> <<1480>>
      [] v = "1500" -> <<1500>>
      [] v = "6000" -> <<6000>>
      [] v = "20000" -> <<20000>>
      [] OTHER -> None

\* the columns _clean_data_types converts when they exist
numeric_cols ==
    {"float", "outstandingshares", "cash (usd)", "averagevolume3m",
     "debt (usd)", "burn rate (months)"}

\* setup_data: pd.DataFrame([new_data]) and _clean_data_types; the columns
\* are the keys of the record, as they are spelled
setup_data(new_data) ==
    [k \in DOMAIN new_data |->
        IF k \in numeric_cols THEN NumberOf(new_data[k]) ELSE new_data[k]]

\* get_results(as_json=True): the display columns that exist
squeeze_result(symbol, result) ==
    LET cols == {"symbol", "squeeze_score", "short_signal", "atm_urgency",
                 "hype_score"}
                  \cup (IF result.float_risk # Absent THEN {"float_risk"} ELSE {})
                  \cup (IF result.float_ratio_risk # Absent
                        THEN {"float_ratio_risk"} ELSE {})
    IN  [c \in cols |-> IF c = "symbol" THEN symbol ELSE result[c]]

\* ShortSqueezeScanner.run(new_stock_data, current_price, intraday_high,
\* short_interest): the columns it computes
scanner_run(data, current_price, intraday_high, short_interest) ==
    LET score == calculate_squeeze_risk(data, current_price, short_interest)
        resistance == resistance_ok(current_price, intraday_high)
    IN  [float_risk |-> float_risk(data),
         float_ratio_risk |-> float_ratio_risk(data),
         cash_crisis |-> cash_crisis(data, current_price),
         squeeze_score |-> score,
         atm_urgency |-> atm_urgency(data),
         resistance_ok |-> resistance,
         hype_score |-> hype_score(data),
         short_signal |-> short_signal(score, atm_urgency(data), resistance,
                                       hype_score(data))]

OrchFloats == {"500", "6000"}
OrchOutstanding == {"1000", "20000"}
OrchCloses == {"1000", "1480"}
OrchHighs == {"0", "1500"}

\* what fetch_symbols returns for the symbol A: nothing, or one item in which
\* float and outstandingShares are numbers, null or left out
OrchFundLists ==
    {<<>>}
      \cup {<<[symbol |-> "A", float |-> f, outstandingShares |-> o]>> :
               f \in OrchFloats \cup {Null}, o \in OrchOutstanding \cup {Null}}
      \cup {<<[symbol |-> "A", float |-> f]>> : f \in OrchFloats \cup {Null}}
      \cup {<<[symbol |-> "A", outstandingShares |-> o]>> :
               o \in OrchOutstanding \cup {Null}}
      \cup {<<[symbol |-> "A", name |-> "f1"]>>}

\* what get_price_analyzer_results returns for the symbol A
OrchPriceLists ==
    {<<>>}
      \cup {<<[symbol |-> "A", day_close |-> c, day_high |-> h]>> :
               c \in OrchCloses \cup {Null}, h \in OrchHighs \cup {Null}}

OrchSymbolLists == {<<"A">>, <<"B">>}

InitOrch ==
    /\ today = 1
    /\ store = {}
    /\ nextId = 1
    /\ tokenValid = TRUE
    /\ pc = [p \in Procs |-> "idle"]
    /\ ny_today = [p \in Procs |-> 1]
    /\ dh = [p \in Procs |-> DhInit]
    /\ hist = [p \in Procs |-> HistInit]
    /\ produced = {}
    /\ chart = ChartIdle
    /\ scanner = ScannerIdle
    /\ sec = SecIdle
    /\ \E l \in OrchSymbolLists, f \in OrchFundLists, p \in OrchPriceLists :
          merger = [MergerIdle EXCEPT
                       !.list_of_symbols = l, !.fundamentals = f,
                       !.price_results = p, !.given = <<l, f, p>>]

\* self.fundamentals = self.merge_fundamentals_and_price_data(...)
OrchMerge ==
    /\ merger.returned = <<>>
    /\ merger' = [merger EXCEPT
                     !.returned = <<merge(merger.list_of_symbols,
                                          merger.fundamentals,
                                          merger.price_results)>>]
    /\ UNCHANGED <<today, store, nextId, tokenValid, pc, ny_today, dh, hist,
                   produced, chart, scanner, sec>>

\* perform_short_squeeze_analysis over the one record of self.fundamentals:
\* squeeze_scanner.run(fundamental, fundamental['day_close'],
\* fundamental['day_high'], None), then the update of the record
OrchSqueeze ==
    /\ Len(merger.returned) = 1
    /\ ~scanner.done
    /\ LET fundamental == merger.returned[1][1]
           current_price == NumberOf(fundamental["day_close"])
           intraday_high == NumberOf(fundamental["day_high"])
           data == setup_data(fundamental)
           result == scanner_run(data, current_price, intraday_high, None)
       IN  /\ ~ShortSignalsRaise(current_price, intraday_high)
           /\ scanner' = [scanner EXCEPT
                             !.data = data,
                             !.current_price = current_price,
                             !.intraday_high = intraday_high,
                             !.short_interest = None,
                             !.done = TRUE,
                             !.result = result]
           /\ merger' = [merger EXCEPT
                            !.squeezed = TRUE,
                            !.final = merge_squeeze(merger.returned[1],
                                         <<squeeze_result(fundamental["symbol"],
                                                          result)>>)]
    /\ UNCHANGED <<today, store, nextId, tokenValid, pc, ny_today, dh, hist,
                   produced, chart, sec>>

\* the ZeroDivisionError of generate_short_signals leaves
\* perform_short_squeeze_analysis (and DataHandler.run)
OrchSqueezeRaises ==
    /\ Len(merger.returned) = 1
    /\ ~scanner.done
    /\ LET fundamental == merger.returned[1][1]
           current_price == NumberOf(fundamental["day_close"])
           intraday_high == NumberOf(fundamental["day_high"])
       IN  /\ ShortSignalsRaise(current_price, intraday_high)
           /\ scanner' = [scanner EXCEPT
                             !.data = setup_data(fundamental),
                             !.current_price = current_price,
                             !.intraday_high = intraday_high,
                             !.done = TRUE, !.raised = TRUE]
    /\ UNCHANGED <<today, store, nextId, tokenValid, pc, ny_today, dh, hist,
                   produced, chart, sec, merger>>

NextOrch == OrchMerge \/ OrchSqueeze \/ OrchSqueezeRaises

SpecOrch == InitOrch /\ [][NextOrch]_vars

(***************************************************************************)
(* Properties of the memoization gate and of the store.                    *)
(***************************************************************************)
\* the documents of symbol s dated with the current New York date
TodayDocs(s) == {d \in store : d.symbol = s /\ d.today_date = today}

\* C1: memoization idempotence.  A symbol whose (symbol, today) document
\* holds a non-empty suggestion (resp. sec_filing_analysis) is never handed
\* to the text-generation service (resp. the SEC analyzer) by a run.
C1_NoSecondCall ==
    \A p \in Procs :
        /\ pc[p] = "sugg_fetch" =>
              \A s \in Range(dh[p].to_analyze) :
                  ~\E d \in TodayDocs(s) : Truthy(d.suggestion)
        /\ pc[p] = "sec_run" =>
              \A s \in Range(dh[p].to_analyze) :
                  ~\E d \in TodayDocs(s) : Truthy(d.sec_filing_analysis)

\* C2: the store holds at most one document per (symbol, today_date).
C2_OnePerKey ==
    \A d, e \in store :
        (d.symbol = e.symbol /\ d.today_date = e.today_date) => d = e

\* C3: persisting a suggestion or an SEC analysis changes nothing but that
\* analysis field and the today_date stamp: every document stored before the
\* upsert is still there with every other field unchanged.
C3_FrameEffect ==
    [][\A p \in Procs :
          (pc[p] \in {"sugg_write", "sec_write"} /\ store' # store) =>
              LET key == IF pc[p] = "sugg_write" THEN "suggestion"
                         ELSE "sec_filing_analysis"
              IN  \A d \in store : \E e \in store' :
                      \A f \in Fields \ {key, "today_date"} : e[f] = d[f]]_vars

\* a suggestion has just been merged onto a stored price/fundamental record
C3_Witness ==
    /\ pc[1] = "sugg_write"
    /\ dh[1].idx = 2
    /\ \E d \in store : d.price = "p1" /\ d.fund = "f1" /\ d.suggestion = "s1"

\* C4: a symbol of the run for which no analysis of a kind has been produced
\* today is classified NEEDS_ANALYSIS by the gate of that kind.
C4_ComputedWhenMissing ==
    [][\A p \in Procs :
          /\ (pc[p] = "sugg_gate" /\ pc'[p] \in {"sugg_fetch", "sec_gate"}) =>
                \A s \in Range(dh[p].list_of_symbols) :
                    <<s, "suggestion">> \notin produced =>
                        s \in Range(dh'[p].to_analyze)
          /\ (pc[p] = "sec_gate" /\ pc'[p] \in {"sec_run", "final"}) =>
                \A s \in Range(dh[p].list_of_symbols) :
                    <<s, "sec_filing_analysis">> \notin produced =>
                        s \in Range(dh'[p].to_analyze)]_vars

(***************************************************************************)
(* Properties of one run over a batch.                                     *)
(***************************************************************************)
\* C5 (as claimed): when the computation for the next symbol starts, the
\* price result of every earlier symbol of the run is in the store.
C5_PerSymbolDurability ==
    \A p \in Procs :
        (pc[p] = "price" /\ dh[p].idx <= Len(dh[p].list_of_symbols)) =>
            \A i \in 1..(dh[p].idx - 1) :
                \E d \in store :
                    /\ d.symbol = dh[p].list_of_symbols[i]
                    /\ d.price = dh[p].prices[dh[p].list_of_symbols[i]]

\* C5 (amended): results are persisted phase by phase.  The store changes
\* only in the three upsert loops, and the first of them runs only once the
\* price result of every symbol and the fundamentals batch are computed.
C5_PhasePersistence ==
    [][store' # store =>
          \E p \in Procs :
              \/ /\ pc[p] = "store_write"
                 /\ \A s \in Range(dh[p].list_of_symbols) :
                        dh[p].prices[s] # Unset /\ dh[p].fund[s] # Unset
              \/ pc[p] \in {"sugg_write", "sec_write"}]_vars

\* the first symbol's price is computed, the second symbol's computation is
\* about to start, and nothing has been written
C5_Witness ==
    /\ pc[1] = "price"
    /\ dh[1].list_of_symbols = <<"A", "B">>
    /\ dh[1].idx = 2
    /\ dh[1].prices["A"] = "p1"
    /\ store = {}

\* C6: failure isolation.  Whatever external call or sub-analysis fails, a
\* run that has started ends by returning its two result lists.
C6_RunReturns ==
    \A p \in Procs :
        (pc[p] \in {"ended", "exited"}
            /\ hist[p].err \notin {"config_startup", "config_midbatch"}) =>
                hist[p].returned \in {"lists", "empty"}

\* C7: once the symbol loop of a run has processed a symbol, no step raises
\* the credential failure.
C7_NoCredentialFailureMidBatch ==
    [][\A p \in Procs :
          (pc[p] = "price" /\ dh[p].idx > 1) =>
              hist'[p].err # "config_midbatch"]_vars

(***************************************************************************)
(* Properties of two concurrent instances.                                 *)
(***************************************************************************)
\* C8: under every interleaving of two instances, no analysis value stored
\* by one instance is replaced by the value the other read earlier: the
\* store_fundamentals_in_db upsert of an instance leaves the suggestion and
\* the sec_filing_analysis of every stored document as they are.
C8_NoStaleOverwrite ==
    [][\A p \in Procs :
          (pc[p] = "store_write" /\ dh'[p].idx = dh[p].idx + 1) =>
              \A d \in store : \E e \in store' :
                  /\ e.id = d.id
                  /\ e.suggestion = d.suggestion
                  /\ e.sec_filing_analysis = d.sec_filing_analysis]_vars

(***************************************************************************)
(* Properties of ChartAnalyzer.                                            *)
(***************************************************************************)
\* the 1-minute bars of the latest date in the series
LastDayBars ==
    {b \in Range(chart.data_1m) :
        \A o \in Range(chart.data_1m) : o.day <= b.day}

SessionBars == {b \in LastDayBars : b.time >= market_open_time}

\* C9: day_low is the (2-decimal) minimum low over the last day's bars at or
\* after 09:30, null when there is none, whatever the premarket lows are;
\* day_high is the (2-decimal) maximum high over all bars of the last day.
C9_DayLowDayHigh ==
    chart.done =>
        /\ (chart.result.day_low = None) <=> (SessionBars = {})
        /\ SessionBars # {} =>
              /\ \E b \in SessionBars :
                    chart.result.day_low[1] = to_two_decimal(b.low)
              /\ \A b \in SessionBars :
                    chart.result.day_low[1] <= to_two_decimal(b.low)
        /\ (chart.result.day_high = None) <=> (LastDayBars = {})
        /\ LastDayBars # {} =>
              /\ \E b \in LastDayBars :
                    chart.result.day_high[1] = to_two_decimal(b.high)
              /\ \A b \in LastDayBars :
                    chart.result.day_high[1] >= to_two_decimal(b.high)

\* a premarket bar of the last day has the lowest low, and day_low is the
\* session low; the premarket bar has the highest high, and day_high is it
C9_Witness ==
    /\ chart.done
    /\ \E b \in LastDayBars : b.time < market_open_time /\ b.low = 1000
                                /\ b.high = 1804
    /\ chart.result.day_low = <<1500>>
    /\ chart.result.day_high = <<1800>>

\* C10: for every input and every N >= 0 the key levels are strictly
\* ascending, at most N, and are the N smallest candidate levels.
C10_KeyLevels ==
    chart.done =>
        LET levels == chart.result.key_levels
            candidates == Range(key_level_candidates(chart))
            N == chart.level_number
        IN  /\ \A i \in 1..(Len(levels) - 1) : levels[i] < levels[i + 1]
            /\ Len(levels) <= N
            /\ Range(levels) \subseteq candidates
            /\ Len(levels) = IF N < Cardinality(candidates)
                             THEN N ELSE Cardinality(candidates)
            /\ \A x \in Range(levels) :
                   \A y \in candidates \ Range(levels) : x < y

\* three retained daily bars, two of them with the same 2-decimal level, and
\* fewer levels requested than there are distinct candidates
C10_Witness ==
    /\ chart.done
    /\ chart.level_number = 1
    /\ Len(key_level_candidates(chart)) = 3
    /\ Cardinality(Range(key_level_candidates(chart))) = 2
    /\ chart.result.key_levels = <<1850>>

(***************************************************************************)
(* Properties of ShortSqueezeScanner.                                      *)
(***************************************************************************)
\* the weights of the indicators that are present in the scanned row
PresentWeights == weights(scanner.data, scanner.current_price)

\* the 0/1 indicators of the scanned row, in the order of PresentWeights
PresentIndicators ==
    (IF float_risk(scanner.data) # Absent
     THEN <<Indicator(float_risk(scanner.data) = "Extreme Risk (Float <1M)")>>
     ELSE <<>>)
    \o (IF float_ratio_risk(scanner.data) # Absent
        THEN <<Indicator(float_ratio_risk(scanner.data)
                           = "Warning (Float/Outstanding <40%)")>>
        ELSE <<>>)
    \o <<short_risk(scanner.data, scanner.short_interest)>>
    \o (IF cash_crisis(scanner.data, scanner.current_price) # None
        THEN <<cash_crisis(scanner.data, scanner.current_price)[1]>>
        ELSE <<>>)

Scanned == scanner.done /\ ~scanner.raised

\* C11: for every row, current price and short interest the squeeze score
\* lies in [0,1], and when all four indicators are computable the weights
\* used are 0.5, 0.2, 0.2, 0.1 and sum to exactly 1.0
C11_ScoreInUnitInterval ==
    Scanned =>
        /\ scanner.result.squeeze_score.den > 0
        /\ 0 <= scanner.result.squeeze_score.num
        /\ scanner.result.squeeze_score.num <= scanner.result.squeeze_score.den
        /\ (/\ scanner.result.float_risk # Absent
            /\ scanner.result.float_ratio_risk # Absent
            /\ scanner.result.cash_crisis # None)
           => /\ PresentWeights = <<5, 2, 2, 1>>
              /\ total_weight(PresentWeights) = 10

\* a scanned row with all four indicators computable and all of them set
C11_Witness ==
    /\ Scanned
    /\ Len(PresentWeights) = 4
    /\ PresentIndicators = <<1, 1, 1, 1>>
    /\ scanner.result.squeeze_score.num > 0

\* C12: the squeeze score is the renormalized weighted sum of the present
\* indicators, sum of (w_i / sum of present weights) * indicator_i; so it is
\* 1 when every present indicator is 1
C12_RenormalizedWeightedSum ==
    Scanned =>
        scanner.result.squeeze_score.num * total_weight(PresentWeights)
          = scanner.result.squeeze_score.den
              * SumSeq([i \in 1..Len(PresentWeights) |->
                           PresentWeights[i] * PresentIndicators[i]])

\* the inputs a clause of the short signal needs are not all there
MissingPrice == scanner.current_price = None \/ scanner.intraday_high = None
MissingSuggestion ==
    "suggestion" \notin DOMAIN scanner.data \/ scanner.data["suggestion"] = None
MissingShelfOrBurn ==
    \/ "last shelf date" \notin DOMAIN scanner.data
    \/ "burn rate (months)" \notin DOMAIN scanner.data
    \/ scanner.data["last shelf date"] = None
    \/ scanner.data["burn rate (months)"] = None

\* C13: short_signal is true if and only if squeeze_score < 0.4, atm_urgency
\* = 1, resistance_ok and hype_score >= 3 hold together, so making any one of
\* them false makes the signal false; a missing precondition (no price or
\* intraday high, no suggestion, no shelf date or burn rate) makes its clause
\* false and is never what makes run() raise
C13_ShortSignalConjunction ==
    /\ Scanned =>
        /\ scanner.result.short_signal
             <=> /\ scanner.result.squeeze_score.num * 10
                       < 4 * scanner.result.squeeze_score.den
                 /\ scanner.result.atm_urgency = 1
                 /\ scanner.result.resistance_ok
                 /\ scanner.result.hype_score # None
                 /\ scanner.result.hype_score[1] >= 3
        /\ MissingPrice => ~scanner.result.resistance_ok
        /\ MissingSuggestion =>
              \/ scanner.result.hype_score = None
              \/ scanner.result.hype_score[1] < 3
        /\ MissingShelfOrBurn => scanner.result.atm_urgency = 0
        /\ (MissingPrice \/ MissingSuggestion \/ MissingShelfOrBurn)
              => ~scanner.result.short_signal
    /\ scanner.raised => ~MissingPrice

\* a scanned row for which all four conditions hold and the signal is set
C13_Witness ==
    /\ Scanned
    /\ scanner.result.short_signal
    /\ scanner.result.atm_urgency = 1
    /\ scanner.result.resistance_ok
    /\ scanner.result.hype_score = <<3>>

(***************************************************************************)
(* Properties of SECFinancialAnalyzer.                                     *)
(***************************************************************************)
Assessed == sec.done /\ sec.result.Error = "none"

\* the symbol has a filing of a shelf form dated within the last 3 years
HasValidShelfFiling ==
    \E i \in 1..Len(sec.filings) :
        /\ sec.filings[i][1] \in {"S-3", "S-3/A", "S-3ASR", "F-3", "F-3ASR"}
        /\ sec.filings[i][2] < three_years

\* C14: the dilution risk level is "None" if and only if the symbol has no
\* valid shelf filing, whatever cash, debt and burn rate are (missing
\* included)
C14_NoneIffNoValidShelf ==
    Assessed => (sec.result.risk_level = "None" <=> ~HasValidShelfFiling)

\* an assessed symbol with shelf filings that are all too old and with no
\* cash figure, whose level is "None"
C14_Witness ==
    /\ Assessed
    /\ Len(shelf_filings(sec.filings)) > 0
    /\ ~HasValidShelfFiling
    /\ sec.cash = None
    /\ sec.result.risk_level = "None"

\* C15: calculate_atm_risk returns the level of the first matching row of
\* the decision table: no valid shelf -> None; cash unknown -> Very High;
\* cash < $5M -> Very High; cash < $10M -> High; cash/debt < 10% -> High;
\* cash/debt < 25% -> Medium-High; burn rate < 6 months -> Medium-High;
\* otherwise Medium
C15_DecisionTable ==
    Assessed =>
        sec.result.risk_level =
            IF ~HasValidShelfFiling THEN "None"
            ELSE IF sec.cash = None THEN "Very High"
            ELSE IF sec.cash[1] < 5000 THEN "Very High"
            ELSE IF sec.cash[1] < 10000 THEN "High"
            ELSE IF sec.debt # None /\ sec.debt[1] # 0
                    /\ sec.cash[1] * 10 < sec.debt[1] THEN "High"
            ELSE IF sec.debt # None /\ sec.debt[1] # 0
                    /\ sec.cash[1] * 4 < sec.debt[1] THEN "Medium-High"
            ELSE IF /\ sec.op_cash_flow # None /\ sec.op_cash_flow[1] < 0
                    /\ 3 * sec.cash[1] < 6 * (-sec.op_cash_flow[1])
                 THEN "Medium-High"
            ELSE "Medium"

\* how cautious a stance is, from accumulate to avoid
Strictness(overall) ==
    CASE overall = "Hold/Accumulate" -> 0
      [] overall = "Hold - Insufficient data to make recommendation" -> 1
      [] overall = "Hold with caution" -> 2
      [] overall \in {"Caution/Short-term", "Caution/Reduce", "Reduce/Caution"} -> 3
      [] overall = "Sell/Short-term only" -> 4
      [] overall = "Reduce/Avoid" -> 5
      [] overall = "Avoid/Sell" -> 6

IsPrefix(s, t) == Len(s) <= Len(t) /\ SubSeq(t, 1, Len(s)) = s

\* C16: after the risk level has set the baseline stance, every later check
\* of generate_trading_recommendations (cash ratio, burn rate, active shelf,
\* absolute cash) leaves the stance unchanged or replaces it by one at least
\* as cautious, and the reasons list only grows by appending
C16_CascadeMonotone ==
    Assessed =>
        \A i \in 2..(Len(sec.result.steps) - 1) :
            /\ Strictness(sec.result.steps[i + 1].overall)
                  >= Strictness(sec.result.steps[i].overall)
            /\ IsPrefix(sec.result.steps[i].reasons,
                        sec.result.steps[i + 1].reasons)

(***************************************************************************)
(* Properties of the merges.                                               *)
(***************************************************************************)
\* C17: merging a second time the same partial-record lists and the same
\* symbol list (SymbolMerger.merge, and DataMerge.merge_data_by_symbol
\* called again on the same instance) returns a result equal to the first
\* one, with one record per listed symbol, and leaves the inputs unmodified
C17_MergeDeterministic ==
    /\ <<merger.list_of_symbols, merger.fundamentals, merger.price_results>>
          = merger.given
    /\ \A k \in 1..Len(merger.returned) :
          /\ merger.returned[k] = merger.returned[1]
          /\ Len(merger.returned[k]) = Len(merger.list_of_symbols)
    /\ \A k \in 1..Len(merger.dm_returned) :
          /\ merger.dm_returned[k] = merger.dm_returned[1]
          /\ Len(merger.dm_returned[k]) = Len(merger.list_of_symbols)

\* the record of the given source list for the symbol (there is at most one)
SourceOf(items, symbol) ==
    {items[i] : i \in {j \in 1..Len(items) :
                          /\ "symbol" \in DOMAIN items[j]
                          /\ items[j]["symbol"] = symbol}}

\* the value the sources supply for a key of a symbol: that of the last
\* source, in the order fundamentals < price results < squeeze, that has a
\* record for the symbol with that key; null when none has
Supplied(sources, symbol, key) ==
    LET having == {n \in 1..Len(sources) :
                      \E r \in SourceOf(sources[n], symbol) : key \in DOMAIN r}
    IN  IF having = {} THEN Null
        ELSE LET last == CHOOSE n \in having : \A m \in having : m <= n
                 r == CHOOSE r \in SourceOf(sources[last], symbol) : key \in DOMAIN r
             IN  r[key]

\* C18: SymbolMerger.merge returns one record per entry of the symbol list,
\* in list order, whose symbol is that entry; the record has every key of
\* the template and, for each key, the value of the last source in the order
\* fundamentals < price results (< squeeze result) that supplies it, null
\* when none does; a symbol no source knows gets the all-null template
C18_OneRecordPerSymbol ==
    /\ \A k \in 1..Len(merger.returned) :
          LET out == merger.returned[k]
              l == merger.list_of_symbols
          IN  /\ Len(out) = Len(l)
              /\ \A n \in 1..Len(l) :
                    /\ out[n]["symbol"] = l[n]
                    /\ all_keys \subseteq DOMAIN out[n]
                    /\ \A key \in DOMAIN out[n] \ {"symbol"} :
                          out[n][key] = Supplied(<<merger.fundamentals,
                                                   merger.price_results>>,
                                                 l[n], key)
    /\ merger.squeezed =>
          LET out == merger.final
              l == merger.list_of_symbols
          IN  /\ Len(out) = Len(l)
              /\ \A n \in 1..Len(l) :
                    /\ out[n]["symbol"] = l[n]
                    /\ all_keys \subseteq DOMAIN out[n]
                    /\ \A key \in DOMAIN out[n] \ {"symbol"} :
                          out[n][key] = Supplied(<<merger.fundamentals,
                                                   merger.price_results,
                                                   merger.squeeze_results>>,
                                                 l[n], key)

\* a merge of A (known to both sources, which both supply name) and C (known
\* to none), followed by the squeeze update
C18_Witness ==
    /\ merger.squeezed
    /\ merger.list_of_symbols = <<"A", "C">>
    /\ merger.fundamentals = <<[symbol |-> "A", name |-> "f1", float |-> "f1"]>>
    /\ merger.price_results = <<[symbol |-> "A", day_high |-> Null, name |-> "p1"]>>
    /\ merger.squeeze_results = <<[symbol |-> "A", squeeze_score |-> "q1"]>>
    /\ merger.final[1]["name"] = "p1"
    /\ merger.final[1]["float"] = "f1"
    /\ merger.final[1]["squeeze_score"] = "q1"
    /\ merger.final[2] = [key \in all_keys |-> IF key = "symbol" THEN "C" ELSE Null]

(***************************************************************************)
(* Properties of what DataHandler.run returns.                             *)
(***************************************************************************)
\* the first returned list holds one record per symbol of the run
OneRecordPerRunSymbol(p) ==
    /\ \A s \in Range(hist[p].symbols) :
          Cardinality({d \in hist[p].final_fundamentals : d.symbol = s}) = 1
    /\ \A d \in hist[p].final_fundamentals : d.symbol \in Range(hist[p].symbols)

\* the second returned list holds one assessment for each symbol handed to
\* the SEC analyzer in this run, and none for any other symbol
OnlyNewlyAnalyzed(p) ==
    /\ {a.Symbol : a \in hist[p].final_sec_analyses} = hist[p].analyzed
    /\ \A a, b \in hist[p].final_sec_analyses : a.Symbol = b.Symbol => a = b

\* C19: DataHandler.run returns one merged record per symbol of the run and
\* a list of dilution assessments holding exactly the assessments of the
\* symbols newly analyzed in this run; a symbol whose sec_filing_analysis was
\* cached before the run contributes no entry to the second list.
C19_RunReturnsNewAssessments ==
    \A p \in Procs :
        hist[p].returned = "lists" =>
            OneRecordPerRunSymbol(p) /\ OnlyNewlyAnalyzed(p)

(***************************************************************************)
(* Properties of the date of the memoization gate.                         *)
(***************************************************************************)
\* the steps of a run in which the gate queries the store or an analysis is
\* upserted under the gate's key
GatePhases ==
    {"sugg_gate", "sugg_fetch", "sugg_write", "sec_gate", "sec_run",
     "sec_write", "final"}

\* C20: in every run, also of a process that is still alive after midnight
\* New York time, the date the memoization gate queries and keys with (the
\* module-level ny_today) is the New York date of that run, the one that
\* store_fundamentals_in_db computed and stamped its documents with.
C20_GateDateIsRunDate ==
    \A p \in Procs :
        pc[p] \in GatePhases => ny_today[p] = dh[p].local_today

(***************************************************************************)
(* Properties of the recommendation and of the risk level without debt.    *)
(***************************************************************************)
\* the stance generate_trading_recommendations returns
Overall == sec.result.steps[Len(sec.result.steps)].overall

\* C21: whenever the risk level is "Very High", the overall stance returned
\* by generate_trading_recommendations is "Avoid/Sell", for every cash ratio
\* and burn rate
C21_VeryHighAvoidSell ==
    (Assessed /\ sec.result.risk_level = "Very High") => Overall = "Avoid/Sell"

\* C22: the cash/debt ratio exists only when cash and debt are both present,
\* so with a valid shelf, cash >= $10M, debt unknown and a burn rate that is
\* unknown or at least 6 months, the risk level is "Medium"
C22_NoDebtMedium ==
    (/\ Assessed
     /\ HasValidShelfFiling
     /\ sec.cash # None /\ sec.cash[1] >= 10000
     /\ sec.debt = None
     /\ \/ sec.op_cash_flow = None
        \/ sec.op_cash_flow[1] >= 0
        \/ 3 * sec.cash[1] >= 6 * (-sec.op_cash_flow[1]))
        => sec.result.risk_level = "Medium"

(***************************************************************************)
(* Properties of the ATM urgency and of the float risk.                    *)
(***************************************************************************)
\* the whole days from now until the shelf filing dated d days from today is
\* three years old
DaysOfShelfLeft(d) == d + three_years - 1

\* C23: atm_urgency is 1 exactly when a numeric burn rate (months) is
\* strictly less than D/30, D being the days from the run date until the last
\* shelf filing is 3 years old; it is 0 otherwise, and 0 when the burn rate
\* is not a number or the shelf date is missing.  A shelf filed one year ago
\* with a burn rate of 2 months gives 1.
C23_AtmUrgency ==
    Scanned =>
        scanner.result.atm_urgency =
            IF /\ ~MissingShelfOrBurn
               /\ scanner.data["burn rate (months)"][1] * 30
                     < DaysOfShelfLeft(scanner.data["last shelf date"][1])
            THEN 1 ELSE 0

\* the scanned row carries a float value
HasFloatValue ==
    "float" \in DOMAIN scanner.data /\ scanner.data["float"] # None

\* the classification of the row's float by the thresholds of the claim
FloatClass ==
    IF ~HasFloatValue THEN Absent
    ELSE IF scanner.data["float"][1] < 1000 THEN "Extreme Risk (Float <1M)"
    ELSE IF scanner.data["float"][1] < 5000 THEN "High Risk (1M<=Float<5M)"
    ELSE "Acceptable"

\* C24: float_risk is Extreme iff float < 1,000,000, High iff 1,000,000 <=
\* float < 5,000,000, Acceptable iff float >= 5,000,000, and it is omitted
\* when the record carries no float value (a null float of the merge template
\* included); the extreme-float indicator then takes no weight slot in the
\* composite score.
C24_FloatRisk ==
    Scanned =>
        /\ scanner.result.float_risk = FloatClass
        /\ ~HasFloatValue =>
              scanner.result.squeeze_score.den =
                  10 * (weight_short_risk
                        + (IF scanner.result.float_ratio_risk # Absent
                           THEN weight_float_ratio_risk ELSE 0)
                        + (IF scanner.result.cash_crisis # None
                           THEN weight_cash_crisis ELSE 0))

(***************************************************************************)
(* Properties of the records the orchestrator hands to the scanner.        *)
(***************************************************************************)
\* str.lower() on the keys of the model
lower(k) == IF k = "outstandingShares" THEN "outstandingshares" ELSE k

\* the item the fundamentals source returned for the symbol of the run
FundSource == SourceOf(merger.fundamentals, merger.list_of_symbols[1])

\* the source supplied a float and an outstanding-shares number
SuppliedFloatAndOutstanding ==
    \E r \in FundSource :
        /\ "float" \in DOMAIN r /\ r["float"] # Null
        /\ "outstandingShares" \in DOMAIN r /\ r["outstandingShares"] # Null

OrchScanned == merger.squeezed /\ scanner.done /\ ~scanner.raised

\* C25: every record handed to the scorer has lower-cased keys (all keys but
\* symbol), so whenever the fundamentals source supplied both float and
\* outstanding shares for a symbol, the scorer computes float_ratio and
\* float_ratio_risk: Warning iff float / outstanding shares < 0.4, else Normal
C25_LowerCasedKeys ==
    OrchScanned =>
        /\ \A k \in DOMAIN scanner.data : k = lower(k)
        /\ SuppliedFloatAndOutstanding =>
              \E r \in FundSource :
                  scanner.result.float_ratio_risk =
                      IF NumberOf(r["float"])[1] * 10
                            < 4 * NumberOf(r["outstandingShares"])[1]
                      THEN "Warning (Float/Outstanding <40%)"
                      ELSE "Normal"

(***************************************************************************)
(* C26: the volume threshold of the key levels counts only the 5-minute    *)
(* bars of the last trading day at or after 04:00: the key levels returned *)
(* are those computed from the 5-minute bars of the last day alone, so     *)
(* bars of earlier days never change which daily bars are retained.        *)
(***************************************************************************)
\* the 5-minute bars of the last trading day (the latest date of data_1m)
LastDayBars5m ==
    LET onLast(x) == \E b \in LastDayBars : x.day = b.day
    IN  SelectSeq(chart.data_5m, onLast)

C26_VolumeOfLastDayOnly ==
    chart.done =>
        chart.result.key_levels =
            get_key_levels([chart EXCEPT !.data_5m = LastDayBars5m],
                           chart.level_number)

(***************************************************************************)
(* C27: in the orchestrated pipeline the scorer never emits a short        *)
(* signal: for every record SymbolMerger builds from the fundamentals and  *)
(* price results (keys of the merge template, hence no suggestion and no   *)
(* last shelf date), ShortSqueezeScanner.run returns hype_score = 0,       *)
(* atm_urgency = 0 and short_signal = false.                               *)
(***************************************************************************)
C27_NoShortSignalInPipeline ==
    (OrchScanned /\ DOMAIN scanner.data \subseteq all_keys) =>
        /\ scanner.result.hype_score = <<0>>
        /\ scanner.result.atm_urgency = 0
        /\ scanner.result.short_signal = FALSE
        /\ merger.final[1]["short_signal"] = FALSE

\* a scored record for which the two other clauses of the signal hold: the
\* price is within 3% of the high and the squeeze score is below 0.4
C27_Witness ==
    /\ OrchScanned
    /\ DOMAIN scanner.data \subseteq all_keys
    /\ scanner.data["float"] # None
    /\ scanner.result.resistance_ok
    /\ scanner.result.squeeze_score.num * 10 < 4 * scanner.result.squeeze_score.den

AnalyzerReturned(p) ==
    /\ pc[p] = "sec_run"
    /\ pc'[p] \notin {"sec_run", "down"}
    /\ hist'[p].err # "cik_map"

HoldsSecError(st, sym, date) ==
    \E d \in st : /\ d.symbol = sym /\ d.today_date = date
                  /\ d.sec_filing_analysis = "err"

C29_FailedAnalysisMemoized ==
    [][\A p \in Procs :
          /\ AnalyzerReturned(p) => pc'[p] = "sec_write"
          /\ (pc[p] = "sec_write" /\ pc'[p] = "final") =>
                \A i \in 1..Len(dh[p].analysis_results) :
                    dh[p].analysis_results[i].res = "err" =>
                        HoldsSecError(store, dh[p].analysis_results[i].Symbol,
                                      today)
          /\ (pc[p] = "sec_gate" /\ pc'[p] # "sec_gate") =>
                \A s \in Range(dh[p].list_of_symbols) :
                    HoldsSecError(store, s, today) =>
                        s \notin Range(dh'[p].to_analyze)]_vars

(***************************************************************************)
(* C30: document-cache coherence within a run of a single process: the     *)
(* cache is empty when the first step that reads it starts, and at every   *)
(* later read through _get_db_documents (the SEC gate and                  *)
(* build_final_results) the cached list for (symbol set, ny_today) equals  *)
(* what a fresh query of the store returns at that moment.                 *)
(***************************************************************************)
FreshQuery(p) ==
    find_doc(store, TRUE, Range(dh[p].list_of_symbols), {ny_today[p]})

====
